---- MODULE Spec2Model ----
(***************************************************************************)
(* Storefront payment path: the BTCPay checkout handler                    *)
(* (POST /api/btcpay-checkout) and the BTCPay webhook handler              *)
(* (POST /api/webhooks/btcpay) over the btcpay_orders table.               *)
(* Admin surface: the admin gate (lib/admin-auth) and the admin endpoints  *)
(* PATCH /api/admin/product/:id and GET /api/admin/product/:id/sizes over  *)
(* the products and product_size_inventory tables; the size comparator.    *)
(*                                                                         *)
(* A request arrives (Receive...), the handler runs to completion as one   *)
(* step (Handle...), the response is returned (Finish).  The gateway may   *)
(* deliver the webhook it has just delivered again (Redeliver).            *)
(***************************************************************************)
EXTENDS Integers, Sequences, FiniteSets, TLC

VARIABLES env, products, orders, invoices, phase, inflight, resp, delivery,
          adminEnv, clock, inventory, productImages, categories,
          productCategories, cartButton

vars == <<env, products, orders, invoices, phase, inflight, resp, delivery,
          adminEnv, clock, inventory, productImages, categories,
          productCategories, cartButton>>

\* What the payment handlers never touch: the admin configuration, the
\* server's clock, the product_size_inventory table and the tables of the
\* catalog (product_images, categories, product_categories), and the
\* CartButton a browser has mounted.
adminVars ==
  <<adminEnv, clock, inventory, productImages, categories, productCategories,
    cartButton>>

\* ------------------------------------------------------------------ bounds

\* Invoices the gateway issues in one run (every order row needs one).
MaxInvoices == 2

\* ------------------------------------------------------------ JSON values

\* A JSON field that is not there (JavaScript undefined).
ABSENT == "<absent>"

\* A JSON scalar as the handlers probe it: t is the JavaScript type, n the
\* number in tenths (2.7 is 27), s the string.
Undef == [t |-> "undefined", n |-> 0, s |-> ""]

JNull == [t |-> "null", n |-> 0, s |-> ""]

JNum(tenths) == [t |-> "number", n |-> tenths, s |-> ""]

JStr(str) == [t |-> "string", n |-> 0, s |-> str]

\* JavaScript truthiness of a string-or-absent field.
Truthy(x) == x # ABSENT /\ x # ""

\* ----------------------------------------------------------------- config

\* The secret the gateway signs with when the operator has configured one.
SharedSecret == "whsec"

SIG_ALG == "sha256"

\* ---------------------------------------------------------------- catalog

\* A decimal(10,2) column value: SQL NULL, or an amount held in cents.
NullPrice == [null |-> TRUE, cents |-> 0]

Price(cents) == [null |-> FALSE, cents |-> cents]

\* A nullable integer column value.
NullInt == [null |-> TRUE, n |-> 0]

\* A products row as first inserted: the columns the checkout reads and the
\* admin PATCH writes; onSale and stockStatus take their column defaults.
Product(id, name, slug, price) ==
  [id |-> id, name |-> name, slug |-> slug, price |-> price,
   regularPrice |-> price, salePrice |-> NullPrice, onSale |-> FALSE,
   stockStatus |-> "IN_STOCK", stockQuantity |-> NullInt, createdAt |-> 0,
   updatedAt |-> 0]

\* The products table.
Catalog ==
  { Product("p1", "Logo Tee", "logo-tee", Price(1999)),
    Product("p2", "Shell Jacket", "shell-jacket", Price(500)),
    Product("p3", "Beanie", "beanie", NullPrice),
    Product("p4", "Therma Mask", "therma-mask", Price(0)) }

orderStatusEnum == {"pending", "processing", "settled", "expired", "invalid"}

\* ---------------------------------------------------------------- webhook

InvoiceId(i) == "inv" \o ToString(i)

\* HMAC as an ideal keyed digest: equal exactly for equal algorithm, key and
\* message.
Hmac(alg, key, msg) == [alg |-> alg, key |-> key, msg |-> msg]

\* A BTCPAY-SIG header value `${prefix}=${hex}`; <<>> is no header.
NoHeader == <<>>

Header(prefix, digest) == <<prefix, digest>>

ByteLength(h) ==
  LET HexLen(digest) == IF digest.alg = "sha256" THEN 64 ELSE 40
  IN  Len(h[1]) + 1 + HexLen(h[2])

\* The body the sender signed when the body received is b and was altered
\* on the way (a settled event forged from an expired one, and so on).
Original(b) ==
  [b EXCEPT !.type = IF b.type = "InvoiceExpired" THEN "InvoiceSettled"
                     ELSE "InvoiceExpired"]

\* A handler's outcome: the Response it returns (status), or thrown when an
\* exception leaves the handler and no Response is returned; calls is the
\* sequence of operations the handler performed, in order, and failed the
\* call the database or the gateway did not answer ("" when all did).
NoResponse ==
  [status |-> 0, thrown |-> FALSE, calls |-> <<>>, failed |-> "", orderId |-> "",
   checkoutUrl |-> "", sizes |-> <<>>, list |-> <<>>]

Reply(status, calls) == [NoResponse EXCEPT !.status = status, !.calls = calls]

Thrown(calls) == [NoResponse EXCEPT !.thrown = TRUE, !.calls = calls]

\* The outcome r, come about because call failed.
Failing(r, call) == [r EXCEPT !.failed = call]

\* What a handler leaves behind: its outcome, the btcpay_orders table and
\* the invoices held by the gateway.
Outcome(r, os, invs) == [resp |-> r, orders |-> os, invoices |-> invs]

\* Mutant: the creation event is mapped as well, to pending.
EVENT_TO_STATUS_MapsCreated ==
  [InvoiceProcessing |-> "processing", InvoiceSettled |-> "settled",
   InvoiceExpired |-> "expired", InvoiceInvalid |-> "invalid",
   InvoiceCreated |-> "pending"]

EVENT_TO_STATUS ==
  [InvoiceProcessing |-> "processing", InvoiceSettled |-> "settled",
   InvoiceExpired |-> "expired", InvoiceInvalid |-> "invalid"]

\* eventType ? EVENT_TO_STATUS[eventType] : null, with ABSENT for the falsy
\* results (null, undefined).
StatusOf(eventType) ==
  LET \* What an inherited property reads as: truthy, and no order status.
      Inherited == "[Object.prototype member]"
  IN
  LET \* Property names every plain object inherits from Object.prototype.
      ObjectPrototype ==
        {"constructor", "toString", "valueOf", "hasOwnProperty", "__proto__"}
  IN
  IF ~Truthy(eventType) THEN ABSENT
  ELSE IF eventType \in DOMAIN EVENT_TO_STATUS THEN EVENT_TO_STATUS[eventType]
  ELSE IF eventType \in ObjectPrototype THEN Inherited
  ELSE ABSENT

\* Mutant: the digest lengths are compared and the digests are not.
verifyWebhookSignature_LengthOnly(secret, rawBody, signatureHeader) ==
  IF secret = "" \/ signatureHeader = NoHeader THEN FALSE
  ELSE LET expected == Header(SIG_ALG, Hmac(SIG_ALG, secret, rawBody))
       IN  ByteLength(signatureHeader) = ByteLength(expected)

verifyWebhookSignature(secret, rawBody, signatureHeader) ==
  IF secret = "" \/ signatureHeader = NoHeader THEN FALSE
  ELSE LET expected == Header(SIG_ALG, Hmac(SIG_ALG, secret, rawBody))
       IN  IF ByteLength(signatureHeader) # ByteLength(expected) THEN FALSE
           ELSE signatureHeader = expected

\* select ... from btcpay_orders where btcpay_invoice_id = invoiceId
getOrderByBtcpayInvoiceId(os, invoiceId) ==
  {o \in os : o.btcpayInvoiceId = invoiceId}

\* Mutant: the status update also clears the quantity column.
updateBtcpayOrderStatus_ResetsQuantity(os, id, status) ==
  {IF o.id = id THEN [o EXCEPT !.status = status, !.quantity = 0] ELSE o : o \in os}

\* update btcpay_orders set status = status where id = id
updateBtcpayOrderStatus(os, id, status) ==
  {IF o.id = id THEN [o EXCEPT !.status = status] ELSE o : o \in os}

\* Mutant: the status is written only while the order is pending.
WebhookApply_OnlyFromPending(os, invs, status, invoiceId, fault, done) ==
  LET looked == Append(done, "getOrderByBtcpayInvoiceId")
      rows   == getOrderByBtcpayInvoiceId(os, invoiceId)
  IN  IF fault = "getOrderByBtcpayInvoiceId"
      THEN Outcome(Failing(Thrown(looked), fault), os, invs)
      ELSE IF rows = {} THEN Outcome(Reply(404, looked), os, invs)
      ELSE LET order   == CHOOSE o \in rows : TRUE
               updated == Append(looked, "updateBtcpayOrderStatus")
           IN  IF order.status # "pending" THEN Outcome(Reply(200, looked), os, invs)
               ELSE IF fault = "updateBtcpayOrderStatus"
               THEN Outcome(Failing(Thrown(updated), fault), os, invs)
               ELSE IF status \notin orderStatusEnum
               THEN Outcome(Thrown(updated), os, invs)
               ELSE Outcome(Reply(200, updated),
                            updateBtcpayOrderStatus(os, order.id, status), invs)

\* Mutant: an event for the status the order already has is refused (409).
WebhookApply_RefusesRepeat(os, invs, status, invoiceId, fault, done) ==
  LET looked == Append(done, "getOrderByBtcpayInvoiceId")
      rows   == getOrderByBtcpayInvoiceId(os, invoiceId)
  IN  IF fault = "getOrderByBtcpayInvoiceId"
      THEN Outcome(Failing(Thrown(looked), fault), os, invs)
      ELSE IF rows = {} THEN Outcome(Reply(404, looked), os, invs)
      ELSE LET order   == CHOOSE o \in rows : TRUE
               updated == Append(looked, "updateBtcpayOrderStatus")
           IN  IF order.status = status THEN Outcome(Reply(409, looked), os, invs)
               ELSE IF fault = "updateBtcpayOrderStatus"
               THEN Outcome(Failing(Thrown(updated), fault), os, invs)
               ELSE IF status \notin orderStatusEnum
               THEN Outcome(Thrown(updated), os, invs)
               ELSE Outcome(Reply(200, updated),
                            updateBtcpayOrderStatus(os, order.id, status), invs)

\* Mutant: an event for an invoice without an order row is acknowledged.
WebhookApply_AcksUnknownInvoice(os, invs, status, invoiceId, fault, done) ==
  LET looked == Append(done, "getOrderByBtcpayInvoiceId")
      rows   == getOrderByBtcpayInvoiceId(os, invoiceId)
  IN  IF fault = "getOrderByBtcpayInvoiceId"
      THEN Outcome(Failing(Thrown(looked), fault), os, invs)
      ELSE IF rows = {} THEN Outcome(Reply(200, looked), os, invs)
      ELSE LET order   == CHOOSE o \in rows : TRUE
               updated == Append(looked, "updateBtcpayOrderStatus")
           IN  IF fault = "updateBtcpayOrderStatus"
               THEN Outcome(Failing(Thrown(updated), fault), os, invs)
               ELSE IF status \notin orderStatusEnum
               THEN Outcome(Thrown(updated), os, invs)
               ELSE Outcome(Reply(200, updated),
                            updateBtcpayOrderStatus(os, order.id, status), invs)

\* The handler from the order lookup on: 404 for no row, else the status is
\* written whatever the row's status is.  A status outside the status enum
\* is refused by the column type and the exception leaves the handler.
WebhookApply(os, invs, status, invoiceId, fault, done) ==
  LET looked == Append(done, "getOrderByBtcpayInvoiceId")
      rows   == getOrderByBtcpayInvoiceId(os, invoiceId)
  IN  IF fault = "getOrderByBtcpayInvoiceId"
      THEN Outcome(Failing(Thrown(looked), fault), os, invs)
      ELSE IF rows = {} THEN Outcome(Reply(404, looked), os, invs)
      ELSE LET order   == CHOOSE o \in rows : TRUE
               updated == Append(looked, "updateBtcpayOrderStatus")
           IN  IF fault = "updateBtcpayOrderStatus"
               THEN Outcome(Failing(Thrown(updated), fault), os, invs)
               ELSE IF status \notin orderStatusEnum
               THEN Outcome(Thrown(updated), os, invs)
               ELSE Outcome(Reply(200, updated),
                            updateBtcpayOrderStatus(os, order.id, status), invs)

\* The handler from JSON.parse to the event-type lookup.  Destructuring the
\* payload null throws.
WebhookRoute(os, invs, rawBody, fault, done) ==
  LET parsed == Append(done, "JSON.parse")
  IN  IF rawBody.fmt = "garbage" THEN Outcome(Reply(400, parsed), os, invs)
      ELSE IF rawBody.fmt = "null" THEN Outcome(Thrown(parsed), os, invs)
      ELSE IF ~Truthy(rawBody.invoiceId) THEN Outcome(Reply(400, parsed), os, invs)
      ELSE IF StatusOf(rawBody.type) = ABSENT THEN Outcome(Reply(200, parsed), os, invs)
      ELSE WebhookApply(os, invs, StatusOf(rawBody.type), rawBody.invoiceId, fault, parsed)

\* POST /api/webhooks/btcpay
WebhookPOST(e, os, invs, r, fault) ==
  IF e.WEBHOOK_SECRET = "" THEN Outcome(Reply(500, <<>>), os, invs)
  ELSE IF ~verifyWebhookSignature(e.WEBHOOK_SECRET, r.rawBody, r.sig)
       THEN Outcome(Reply(401, <<"verifyWebhookSignature">>), os, invs)
       ELSE WebhookRoute(os, invs, r.rawBody, fault, <<"verifyWebhookSignature">>)

\* --------------------------------------------------------------- checkout

\* A JavaScript number: NaN, or a finite value held in tenths.
NaN == [nan |-> TRUE, v |-> 0]

Fin(tenths) == [nan |-> FALSE, v |-> tenths]

\* Number("..."): the strings that read as numbers, in tenths.
NumericStrings == ("2" :> 20) @@ ("" :> 0)

\* Number(x)
ToNumber(x) ==
  CASE x.t = "number"    -> Fin(x.n)
    [] x.t = "string"    -> IF x.s \in DOMAIN NumericStrings
                            THEN Fin(NumericStrings[x.s]) ELSE NaN
    [] x.t = "null"      -> Fin(0)
    [] x.t = "undefined" -> NaN

MathFloor(x) == IF x.nan THEN NaN ELSE Fin((x.v \div 10) * 10)

\* x || y on numbers: y when x is 0 or NaN.
OrElse(x, y) == IF x.nan \/ x.v = 0 THEN y ELSE x

MathMin(x, y) == IF x.nan \/ y.nan THEN NaN ELSE IF x.v <= y.v THEN x ELSE y

MathMax(x, y) == IF x.nan \/ y.nan THEN NaN ELSE IF x.v >= y.v THEN x ELSE y

\* const { quantity = 1 } = body: the default stands in for undefined only.
QuantityOrDefault(quantity) == IF quantity.t = "undefined" THEN JNum(10) ELSE quantity

\* Mutant: the "|| 1" is left out.
Qty_NoFallback(quantity) ==
  MathMax(Fin(10),
          MathMin(Fin(990), MathFloor(ToNumber(QuantityOrDefault(quantity))))).v
    \div 10

\* qty = Math.max(1, Math.min(99, Math.floor(Number(quantity)) || 1)), as a
\* number of units.
Qty(quantity) ==
  MathMax(Fin(10),
          MathMin(Fin(990),
                  OrElse(MathFloor(ToNumber(QuantityOrDefault(quantity))), Fin(10)))).v
    \div 10

\* parseFloat(product.price), in cents.
ParseFloat(price) == IF price.null THEN NaN ELSE Fin(price.cents)

\* Mutant: the quantity is left out of the amount.
Amount_UnitPriceOnly(unitPrice, qty) == unitPrice.v

\* Math.round(unitPrice * qty * 100) / 100, in cents: a decimal(10,2) price
\* times at most 99 is far inside the range where the double product rounds
\* to the exact number of cents.
Amount(unitPrice, qty) == unitPrice.v * qty

\* A text column holding SQL NULL.
SqlNull == "<null>"

\* typeof size === 'string' ? size : null
SizeColumn(size) == IF size.t = "string" THEN size.s ELSE SqlNull

\* select ... from products where id = productId
getProductForCheckout(ps, productId) == {p \in ps : p.id = productId}

\* randomUUID(): an id no earlier request was given.
RandomUUID(invs) == "ord" \o ToString(Cardinality(invs) + 1)

\* The gateway's answer to createInvoice: a new invoice under an id of its
\* own, with its hosted checkout page.
createInvoice(invs, amount, currency, orderId) ==
  LET id == InvoiceId(Cardinality(invs) + 1)
  IN  [id |-> id, amount |-> amount, currency |-> currency, orderId |-> orderId,
       checkoutLink |-> "https://btcpay.example/i/" \o id]

\* insert into btcpay_orders: status takes the column default.
createBtcpayOrder(os, row) ==
  os \cup {[id |-> row.id, productId |-> row.productId,
            productName |-> row.productName, quantity |-> row.quantity,
            size |-> row.size, amount |-> row.amount, currency |-> row.currency,
            status |-> "pending", btcpayInvoiceId |-> row.btcpayInvoiceId]}

\* Mutant: the order row is written first and the invoice created after it.
CheckoutTry_InsertsFirst(os, invs, product, qty, size, amount, orderId, fault, done) ==
  LET inserted == Append(done, "createBtcpayOrder")
      invoice  == createInvoice(invs, amount, "USD", orderId)
      invoiced == Append(inserted, "createInvoice")
      row      == [id |-> orderId, productId |-> product.id,
                   productName |-> product.name, quantity |-> qty,
                   size |-> SizeColumn(size), amount |-> amount,
                   currency |-> "USD", btcpayInvoiceId |-> invoice.id]
  IN  IF fault = "createBtcpayOrder"
      THEN Outcome(Failing(Reply(500, inserted), fault), os, invs)
      ELSE IF fault = "createInvoice"
           THEN Outcome(Failing(Reply(500, invoiced), fault),
                        createBtcpayOrder(os, row), invs)
           ELSE Outcome([Reply(200, invoiced) EXCEPT
                           !.orderId = orderId, !.checkoutUrl = invoice.checkoutLink],
                        createBtcpayOrder(os, row), invs \cup {invoice})

\* Mutant: the row is keyed by the order's own id, not the invoice's.
CheckoutTry_KeyedByOrderId(os, invs, product, qty, size, amount, orderId, fault, done) ==
  LET invoiced == Append(done, "createInvoice")
      invoice  == createInvoice(invs, amount, "USD", orderId)
      inserted == Append(invoiced, "createBtcpayOrder")
      row      == [id |-> orderId, productId |-> product.id,
                   productName |-> product.name, quantity |-> qty,
                   size |-> SizeColumn(size), amount |-> amount,
                   currency |-> "USD", btcpayInvoiceId |-> orderId]
  IN  IF fault = "createInvoice"
      THEN Outcome(Failing(Reply(500, invoiced), fault), os, invs)
      ELSE IF fault = "createBtcpayOrder"
           THEN Outcome(Failing(Reply(500, inserted), fault), os, invs \cup {invoice})
           ELSE Outcome([Reply(200, inserted) EXCEPT
                           !.orderId = orderId, !.checkoutUrl = invoice.checkoutLink],
                        createBtcpayOrder(os, row), invs \cup {invoice})

\* The try block: the invoice is created, then the order row is written;
\* whatever is thrown in it is answered with 500.
CheckoutTry(os, invs, product, qty, size, amount, orderId, fault, done) ==
  LET invoiced == Append(done, "createInvoice")
      invoice  == createInvoice(invs, amount, "USD", orderId)
      inserted == Append(invoiced, "createBtcpayOrder")
      row      == [id |-> orderId, productId |-> product.id,
                   productName |-> product.name, quantity |-> qty,
                   size |-> SizeColumn(size), amount |-> amount,
                   currency |-> "USD", btcpayInvoiceId |-> invoice.id]
  IN  IF fault = "createInvoice"
      THEN Outcome(Failing(Reply(500, invoiced), fault), os, invs)
      ELSE IF fault = "createBtcpayOrder"
           THEN Outcome(Failing(Reply(500, inserted), fault), os, invs \cup {invoice})
           ELSE Outcome([Reply(200, inserted) EXCEPT
                           !.orderId = orderId, !.checkoutUrl = invoice.checkoutLink],
                        createBtcpayOrder(os, row), invs \cup {invoice})

\* The handler from the product lookup to the try block.
CheckoutPrice(ps, os, invs, body, fault, done) ==
  LET \* Number.isNaN(unitPrice) || unitPrice <= 0
      PriceInvalid(unitPrice) == unitPrice.nan \/ unitPrice.v <= 0
  IN
  LET looked == Append(done, "getProductForCheckout")
      rows   == getProductForCheckout(ps, body.productId.s)
  IN  IF fault = "getProductForCheckout"
      THEN Outcome(Failing(Thrown(looked), fault), os, invs)
      ELSE IF rows = {} THEN Outcome(Reply(404, looked), os, invs)
      ELSE LET product   == CHOOSE p \in rows : TRUE
               unitPrice == ParseFloat(product.price)
               qty       == Qty(body.quantity)
           IN  IF PriceInvalid(unitPrice) THEN Outcome(Reply(400, looked), os, invs)
               ELSE CheckoutTry(os, invs, product, qty, body.size,
                                Amount(unitPrice, qty), RandomUUID(invs), fault, looked)

\* POST /api/btcpay-checkout
CheckoutPOST(e, ps, os, invs, body, fault) ==
  LET \* !productId || typeof productId !== 'string'
      ProductIdMissing(productId) == productId.t # "string" \/ productId.s = ""
  IN
  LET asked == <<"isBtcpayConfigured">>
      read  == Append(asked, "request.json")
  IN  IF ~e.btcpay THEN Outcome(Reply(503, asked), os, invs)
      ELSE IF body.fmt = "garbage" THEN Outcome(Reply(400, read), os, invs)
      ELSE IF body.fmt = "null" THEN Outcome(Thrown(read), os, invs)
      ELSE IF ProductIdMissing(body.productId) THEN Outcome(Reply(400, read), os, invs)
      ELSE CheckoutPrice(ps, os, invs, body, fault, read)

\* The requests that leave quantity and size alone: text that is no JSON,
\* the JSON text null, and an object for every product id.
PlainCheckoutRequests ==
  LET ProductIds ==
        {Undef, JNum(50), JStr("p1"), JStr("p2"), JStr("p3"), JStr("p4"), JStr("p-unknown")}
  IN
  { [fmt |-> "garbage", productId |-> Undef, quantity |-> Undef, size |-> Undef],
    [fmt |-> "null", productId |-> Undef, quantity |-> Undef, size |-> Undef] }
  \cup [fmt : {"object"}, productId : ProductIds, quantity : {Undef}, size : {Undef}]

\* Request bodies: the plain ones, every quantity for one product, and every
\* size with the least and the largest quantity for the products on sale.
CheckoutRequests ==
  LET Sizes == {Undef, JStr("M"), JNum(50)}
  IN
  LET Quantities ==
        {Undef, JNull, JStr("abc"), JStr("2"), JNum(0), JNum(-10), JNum(5), JNum(27),
         JNum(30), JNum(1500)}
  IN
  PlainCheckoutRequests
  \cup [fmt : {"object"}, productId : {JStr("p1")}, quantity : Quantities,
        size : {Undef}]
  \cup [fmt : {"object"}, productId : {JStr("p1"), JStr("p2")},
        quantity : {Undef, JNum(1500)}, size : Sizes]

\* ------------------------------------------------------------ admin gate

\* Log-ins a run tells apart by the half day in which they happened, and
\* admin requests served within one half day (one millisecond each).
MaxHalfDays == 3

MaxRequests == 2

\* SESSION_MAX_AGE_MS, in milliseconds.
SESSION_MAX_AGE_MS == 24 * 60 * 60 * 1000

HalfDay == SESSION_MAX_AGE_MS \div 2

\* An ADMIN_SECRET of sixteen characters.
AdminSecret == "0123456789abcdef"

Trim(str) ==
  LET \* String.prototype.trim on the strings that carry white space at an end.
      Padded ==
        ("   " :> "") @@ (" M " :> "M") @@ (" Tee 2 " :> "Tee 2") @@ ("  " :> "")
  IN  IF str \in DOMAIN Padded THEN Padded[str] ELSE str

\* The text before the first '.' of a cookie value: num when it starts with
\* decimal digits, n their value, tail what follows them.
Text(num, n, tail) == [num |-> num, n |-> n, tail |-> tail]

\* Date.now().toString()
DateNowToString(now) == Text(TRUE, now, "")

\* parseInt(timestamp, 10), in milliseconds.
parseInt(timestamp) == IF timestamp.num THEN Fin(timestamp.n) ELSE NaN

\* A base64url text: the digest it decodes to, the number of bytes, and the
\* two bits of its last character that belong to no byte (43 characters hold
\* 258 bits, a digest 256).
Base64Url(digest, len, spare) == [digest |-> digest, len |-> len, spare |-> spare]

\* timingSafeEqual(a, b) inside try/catch: it throws on buffers of different
\* length, and the catch answers false.
timingSafeEqual(a, b) == IF a.len # b.len THEN FALSE ELSE a = b

\* getSecret() throws
SecretMissing(e) == e.ADMIN_SECRET = "" \/ Len(e.ADMIN_SECRET) < 16

\* sign(value) when getSecret() returns.
sign(e, value) == Base64Url(Hmac("sha256", e.ADMIN_SECRET, value), 32, 0)

\* A Cookie header: absent or without an admin_session cookie (present
\* false), or with one whose value splits at '.' into a timestamp, a
\* signature when hasSig, and further parts when extra.
NoCookie ==
  [present |-> FALSE, timestamp |-> Text(FALSE, 0, ""), hasSig |-> FALSE,
   signature |-> Base64Url(Hmac("", "", Text(FALSE, 0, "")), 0, 0), extra |-> FALSE]

Cookie(timestamp, signature) ==
  [present |-> TRUE, timestamp |-> timestamp, hasSig |-> TRUE,
   signature |-> signature, extra |-> FALSE]

\* createSessionCookie(), as the client sends it back.
createSessionCookie(e, now) ==
  Cookie(DateNowToString(now), sign(e, DateNowToString(now)))

\* verifySessionCookie(cookieHeader): "true", "false", or "throw" when
\* sign() throws.
verifySessionCookie(e, now, cookieHeader) ==
  LET \* Buffer.from(text, 'base64url'): the spare bits are dropped.
      BufferFrom(text) == [digest |-> text.digest, len |-> text.len]
  IN
  IF ~cookieHeader.present THEN "false"
  ELSE IF ~(cookieHeader.timestamp.num \/ cookieHeader.timestamp.tail # "")
          \/ ~cookieHeader.hasSig
       THEN "false"
  ELSE LET then == parseInt(cookieHeader.timestamp)
           age  == IF then.nan THEN NaN ELSE Fin(now - then.v)
       IN  IF ~age.nan /\ (age.v < 0 \/ age.v > SESSION_MAX_AGE_MS) THEN "false"
           ELSE IF SecretMissing(e) THEN "throw"
           ELSE IF timingSafeEqual(BufferFrom(cookieHeader.signature),
                                   BufferFrom(sign(e, cookieHeader.timestamp)))
                THEN "true" ELSE "false"

\* An Authorization header: scheme is what stands before the first blank
\* ("" when there is no header), colon whether the decoded credentials hold
\* a ':', user and pass what stands before and after the first one.
NoAuthorization == [scheme |-> "", colon |-> FALSE, user |-> "", pass |-> ""]

Credentials(scheme, user, pass) ==
  [scheme |-> scheme, colon |-> TRUE, user |-> user, pass |-> pass]

\* parseBasicAuth(authHeader): ok is false for null.
parseBasicAuth(authHeader) ==
  IF authHeader.scheme # "Basic" \/ ~authHeader.colon
  THEN [ok |-> FALSE, user |-> "", pass |-> ""]
  ELSE [ok |-> TRUE, user |-> authHeader.user, pass |-> authHeader.pass]

\* isAdminAuthenticated(request): "true", "setCookie" for { setCookie: true },
\* "false", or "throw" when verifySessionCookie throws.
isAdminAuthenticated(e, now, request) ==
  IF Trim(e.ADMIN_PASSWORD) = "" THEN "true"
  ELSE LET cookie == verifySessionCookie(e, now, request.cookie)
           auth   == parseBasicAuth(request.authorization)
       IN  IF cookie # "false" THEN cookie
           ELSE IF ~auth.ok THEN "false"
           ELSE IF Len(auth.pass) # Len(e.ADMIN_PASSWORD) THEN "false"
           ELSE IF auth.pass = e.ADMIN_PASSWORD THEN "setCookie" ELSE "false"

\* ----------------------------------------------------------- admin PATCH

JBool(b) == [t |-> "boolean", n |-> 0, s |-> IF b THEN "true" ELSE "false"]

\* A field of the PATCH body after extraction: left out of updates (set
\* false), or set to SQL NULL (null), to a text (s) or to an integer (n).
Unset == [set |-> FALSE, null |-> FALSE, s |-> "", n |-> 0]

SetText(str) == [set |-> TRUE, null |-> FALSE, s |-> str, n |-> 0]

SetNull == [set |-> TRUE, null |-> TRUE, s |-> "", n |-> 0]

STOCK_STATUSES == <<"IN_STOCK", "OUT_OF_STOCK", "ON_BACKORDER">>

\* body.sizeInventory: t is "array" for an array of items, else the type of
\* what stands there.  An item is an object (obj) with a size and a quantity,
\* each a JSON value or Undef when the key is missing.
SizeArray(items) == [t |-> "array", items |-> items]

Item(size, quantity) == [obj |-> TRUE, size |-> size, quantity |-> quantity]

\* Array.isArray(raw) && raw.every(item is an object with the keys size and
\* quantity and a string for size)
SizeInventoryValid(raw) ==
  /\ raw.t = "array"
  /\ \A i \in DOMAIN raw.items :
       /\ raw.items[i].obj
       /\ raw.items[i].size.t # "undefined"
       /\ raw.items[i].quantity.t # "undefined"
       /\ raw.items[i].size.t = "string"

\* Mutant: the quantity of an entry is floored and not clamped.
SizeQuantity_NoClamp(quantity) == MathFloor(ToNumber(quantity))

\* Math.max(0, Math.floor(Number(item.quantity))), in tenths.
SizeQuantity(quantity) == MathMax(Fin(0), MathFloor(ToNumber(quantity)))

\* The parsed sizeInventory: size trimmed, quantity floored and clamped.
SizeInventory(raw) ==
  [i \in DOMAIN raw.items |->
     [size |-> Trim(raw.items[i].size.s),
      quantity |-> SizeQuantity(raw.items[i].quantity)]]

\* The updates object without its updatedAt.
Updates(body) ==
  LET \* x != null ? (typeof x === 'string' ? x.trim() || null : null) : undefined
      PriceField(x) ==
        IF x.t \in {"undefined", "null"} THEN Unset
        ELSE IF x.t = "string" /\ Trim(x.s) # "" THEN SetText(Trim(x.s)) ELSE SetNull
  IN
  LET \* typeof x === 'string' ? x.trim() : undefined
      TextField(x) == IF x.t = "string" THEN SetText(Trim(x.s)) ELSE Unset
  IN
  LET \* The stockQuantity of the body: an integer number as it is, a string by
      \* its leading digits, null for anything else that is not null or missing.
      StockQuantityField(rawQty) ==
        LET \* parseInt(str, 10) on the strings that start with decimal digits.
            IntegerPrefixes == ("12abc" :> 12) @@ ("7" :> 7)
        IN
        LET SetInt(n) == [set |-> TRUE, null |-> FALSE, s |-> "", n |-> n]
        IN
        IF rawQty.t \in {"undefined", "null"} THEN Unset
        ELSE IF rawQty.t = "number" /\ rawQty.n % 10 = 0 THEN SetInt(rawQty.n \div 10)
        ELSE IF rawQty.t = "string" /\ rawQty.s \in DOMAIN IntegerPrefixes
             THEN SetInt(IntegerPrefixes[rawQty.s])
        ELSE SetNull
  IN
  LET \* typeof x === 'string' && STOCK_STATUSES.includes(x) ? x : undefined
      StockStatusField(x) ==
        IF x.t = "string" /\ \E i \in DOMAIN STOCK_STATUSES : STOCK_STATUSES[i] = x.s
        THEN SetText(x.s) ELSE Unset
  IN
  LET \* typeof x === 'boolean' ? x : undefined
      BoolField(x) == IF x.t = "boolean" THEN SetText(x.s) ELSE Unset
  IN
  [name |-> TextField(body.name), slug |-> TextField(body.slug),
   price |-> PriceField(body.price),
   regularPrice |-> PriceField(body.regularPrice),
   salePrice |-> PriceField(body.salePrice), onSale |-> BoolField(body.onSale),
   stockStatus |-> StockStatusField(body.stockStatus),
   stockQuantity |-> StockQuantityField(body.stockQuantity)]

\* Object.keys(updates).length === 1
NoUpdates(updates) == \A f \in DOMAIN updates : ~updates[f].set

\* The texts a decimal(10,2) column reads, in cents.
DecimalStrings == ("25.00" :> 2500) @@ ("0" :> 0)

\* The database refuses the update: a price text that is no decimal, or a
\* slug another product has (slug is unique).
UpdateRefused(ps, id, updates) ==
  \/ \E f \in {"price", "regularPrice", "salePrice"} :
       updates[f].set /\ ~updates[f].null /\ updates[f].s \notin DOMAIN DecimalStrings
  \/ /\ updates.slug.set
     /\ \E p \in ps : p.id = id
     /\ \E q \in ps : q.id # id /\ q.slug = updates.slug.s

\* The row p with updates applied and updatedAt set to now.
Updated(p, updates, now) ==
  LET \* A price as the decimal column takes it.
      ToDecimal(u) == IF u.null THEN NullPrice ELSE Price(DecimalStrings[u.s])
  IN
  [id |-> p.id,
   name |-> IF updates.name.set THEN updates.name.s ELSE p.name,
   slug |-> IF updates.slug.set THEN updates.slug.s ELSE p.slug,
   price |-> IF updates.price.set THEN ToDecimal(updates.price) ELSE p.price,
   regularPrice |-> IF updates.regularPrice.set
                    THEN ToDecimal(updates.regularPrice) ELSE p.regularPrice,
   salePrice |-> IF updates.salePrice.set
                 THEN ToDecimal(updates.salePrice) ELSE p.salePrice,
   onSale |-> IF updates.onSale.set THEN updates.onSale.s = "true" ELSE p.onSale,
   stockStatus |-> IF updates.stockStatus.set
                   THEN updates.stockStatus.s ELSE p.stockStatus,
   stockQuantity |-> IF updates.stockQuantity.set
                     THEN IF updates.stockQuantity.null THEN NullInt
                          ELSE [null |-> FALSE, n |-> updates.stockQuantity.n]
                     ELSE p.stockQuantity,
   createdAt |-> p.createdAt,
   updatedAt |-> now]

\* What an admin handler leaves behind: its outcome, the products table and
\* the product_size_inventory table.
AdminOutcome(r, ps, rows) == [resp |-> r, products |-> ps, inventory |-> rows]

\* A product_size_inventory row.
SizeRow(id, productId, size, quantity, createdAt) ==
  [id |-> id, productId |-> productId, size |-> size, quantity |-> quantity,
   createdAt |-> createdAt, updatedAt |-> createdAt]

\* The database call that is not answered: none, or one of the handler's
\* calls; at is the entry of sizeInventory the loop is at when it strikes.
AdminFaults ==
  {[call |-> "none", at |-> 0]}
  \cup [call : {"products.update", "products.select", "productAttributes.select"},
        at : {0}]
  \cup [call : {"productSizeInventory.select", "productSizeInventory.write"},
        at : {1, 2}]

\* select id from product_size_inventory where product_id = id and size = size
ExistingSizeRows(rows, id, size) == {r \in rows : r.productId = id /\ r.size = size}

\* update product_size_inventory set quantity = Math.max(0, qty),
\* updated_at = now where id = rowId
UpdateSizeRow(rows, rowId, qty, now) ==
  {IF r.id = rowId
   THEN [r EXCEPT !.quantity = MathMax(Fin(0), qty).v \div 10, !.updatedAt = now]
   ELSE r : r \in rows}

\* insert into product_size_inventory (id, product_id, size, quantity), the id
\* from crypto.randomUUID(): one no row has (rows are never deleted).
InsertSizeRow(rows, id, size, qty, now) ==
  rows \cup {SizeRow("si" \o ToString(Cardinality(rows) + 1), id, size, qty.v \div 10, now)}

\* Mutant: a row is inserted for every entry, whether the size has one or not.
UpsertStep_AlwaysInserts(rows, id, item, now) ==
  InsertSizeRow(rows, id, item.size, item.quantity, now)

\* One turn of the loop over sizeInventory when the database takes it: the
\* row of that size is updated if there is one, else a row is inserted.
UpsertStep(rows, id, item, now) ==
  LET existing == ExistingSizeRows(rows, id, item.size)
  IN  IF existing # {}
      THEN UpdateSizeRow(rows, (CHOOSE r \in existing : TRUE).id,
                         item.quantity, now)
      ELSE InsertSizeRow(rows, id, item.size, item.quantity, now)

RECURSIVE UpsertFrom(_, _, _, _, _, _, _, _)

\* for (const { size, quantity: qty } of sizeInventory) from entry i on, and
\* the 200 after it; whatever is thrown is answered with 500.
UpsertFrom(ps, rows, id, items, i, now, fault, done) ==
  IF i > Len(items) THEN AdminOutcome(Reply(200, done), ps, rows)
  ELSE LET selected == Append(done, "productSizeInventory.select")
           existing == ExistingSizeRows(rows, id, items[i].size)
           written  == Append(selected,
                              IF existing # {} THEN "productSizeInventory.update"
                              ELSE "productSizeInventory.insert")
       IN  IF fault.at = i /\ fault.call = "productSizeInventory.select"
           THEN AdminOutcome(Failing(Reply(500, selected), fault.call), ps, rows)
           ELSE IF fault.at = i /\ fault.call = "productSizeInventory.write"
           THEN AdminOutcome(Failing(Reply(500, written), fault.call), ps, rows)
           \* the integer column refuses NaN
           ELSE IF items[i].quantity.nan
           THEN AdminOutcome(Reply(500, written), ps, rows)
           ELSE UpsertFrom(ps, UpsertStep(rows, id, items[i], now), id, items,
                           i + 1, now, fault, written)

\* Mutant: the sizes are written before the product is looked for.
PatchSizes_ChecksAfterWriting(ps, rows, id, body, now, fault, done) ==
  IF ~SizeInventoryValid(body.sizeInventory)
  THEN AdminOutcome(Reply(200, done), ps, rows)
  ELSE LET out == UpsertFrom(ps, rows, id, SizeInventory(body.sizeInventory), 1,
                             now, fault, done)
       IN  IF \E p \in ps : p.id = id THEN out
           ELSE AdminOutcome(Reply(404, out.resp.calls), out.products, out.inventory)

\* if (sizeInventory !== undefined) { ... } and the 200 after it.
PatchSizes(ps, rows, id, body, now, fault, done) ==
  LET selected == Append(done, "products.select")
  IN  IF ~SizeInventoryValid(body.sizeInventory)
      THEN AdminOutcome(Reply(200, done), ps, rows)
      ELSE IF fault.call = "products.select"
      THEN AdminOutcome(Failing(Reply(500, selected), fault.call), ps, rows)
      ELSE IF ~\E p \in ps : p.id = id
      THEN AdminOutcome(Reply(404, selected), ps, rows)
      ELSE UpsertFrom(ps, rows, id, SizeInventory(body.sizeInventory), 1, now,
                      fault, selected)

\* Mutant: every product row is written, not the one addressed.
PatchTry_UpdatesAll(ps, rows, id, body, now, fault, done) ==
  LET updates == Updates(body)
  IN  IF NoUpdates(updates) \/ UpdateRefused(ps, id, updates)
      THEN PatchSizes(ps, rows, id, body, now, fault, done)
      ELSE PatchSizes({Updated(p, updates, now) : p \in ps}, rows, id, body, now,
                      fault, Append(done, "products.update"))

\* The try block: the product row is updated when updates holds a field,
\* then the sizes are written.
PatchTry(ps, rows, id, body, now, fault, done) ==
  LET updates == Updates(body)
      updated == Append(done, "products.update")
  IN  IF NoUpdates(updates) THEN PatchSizes(ps, rows, id, body, now, fault, done)
      ELSE IF fault.call = "products.update"
      THEN AdminOutcome(Failing(Reply(500, updated), fault.call), ps, rows)
      ELSE IF UpdateRefused(ps, id, updates)
      THEN AdminOutcome(Reply(500, updated), ps, rows)
      ELSE IF ~\E p \in ps : p.id = id
      THEN AdminOutcome(Reply(404, updated), ps, rows)
      \* db.update(products).set(updates).where(eq(products.id, id))
      ELSE PatchSizes({IF p.id = id THEN Updated(p, updates, now) ELSE p : p \in ps},
                      rows, id, body, now, fault, updated)

\* PATCH /api/admin/product/:id
AdminPATCH(e, now, ps, rows, r, fault) ==
  LET asked == <<"isAdminAuthenticated">>
      read  == Append(asked, "request.json")
      auth  == isAdminAuthenticated(e, now, r)
  IN  IF auth = "throw" THEN AdminOutcome(Thrown(asked), ps, rows)
      ELSE IF auth = "false" THEN AdminOutcome(Reply(401, asked), ps, rows)
      ELSE IF r.id = "" THEN AdminOutcome(Reply(400, asked), ps, rows)
      ELSE IF r.body.fmt = "garbage" THEN AdminOutcome(Reply(400, read), ps, rows)
      ELSE IF r.body.fmt = "null" THEN AdminOutcome(Thrown(read), ps, rows)
      ELSE IF NoUpdates(Updates(r.body)) /\ ~SizeInventoryValid(r.body.sizeInventory)
      THEN AdminOutcome(Reply(400, read), ps, rows)
      ELSE PatchTry(ps, rows, r.id, r.body, now, fault, read)

\* ------------------------------------------------------- admin GET sizes

productAttributes ==
  LET \* The product_attributes rows: options is a JSON text, fmt "array" for an
      \* array of items, else what JSON.parse makes of it.
      Options(fmt, items) == [fmt |-> fmt, items |-> items]
  IN
  { [id |-> "a1", productId |-> "p1", name |-> "Size",
     options |-> Options("array", <<JStr("S"), JStr("M"), JStr("M"), JNum(50)>>)],
    [id |-> "a2", productId |-> "p1", name |-> "Size",
     options |-> Options("array", <<JStr("M"), JStr("XL")>>)],
    [id |-> "a3", productId |-> "p1", name |-> "Color",
     options |-> Options("array", <<JStr("Red")>>)],
    [id |-> "a4", productId |-> "p2", name |-> "Size",
     options |-> Options("garbage", <<>>)],
    [id |-> "a5", productId |-> "p2", name |-> "Size",
     options |-> Options("object", <<>>)],
    [id |-> "a6", productId |-> "p3", name |-> "Size",
     options |-> Options("array", <<JStr("One Size")>>)] }

\* The size labels and product names of the catalog in the order of
\* String.prototype.localeCompare.
Collation ==
  << "28\"", "Beanie", "L", "Logo Hoodie", "Logo Tee", "Long", "M", "One Size",
     "Quake Tee", "S", "Selvedge Jeans", "Shell Jacket", "Shell Jacket Black",
     "Shell Jacket Black/White", "Shell Jacket Blue", "Sticker", "Tall",
     "Therma Jacket", "Therma Mask", "XL" >>

\* a.localeCompare(b): negative, zero or positive.
localeCompare(a, b) ==
  LET at(str) == CHOOSE i \in DOMAIN Collation : Collation[i] = str
  IN  at(a) - at(b)

\* sizeOptions: the strings among the options of the product's "Size"
\* attributes that parse as arrays.
SizeOptions(id) ==
  UNION { {a.options.items[i].s :
             i \in {j \in DOMAIN a.options.items : a.options.items[j].t = "string"}} :
          a \in {x \in productAttributes :
                   x.productId = id /\ x.name = "Size" /\ x.options.fmt = "array"} }

\* Mutant: the options are left out of the answer.
Combined_InventoryOnly(rows, id) ==
  {[size |-> r.size, quantity |-> r.quantity] : r \in {x \in rows : x.productId = id}}

\* combined: the inventory of the product, and quantity 0 for every option
\* that has no inventory row.
Combined(rows, id) ==
  LET mine == {r \in rows : r.productId = id}
  IN  {[size |-> r.size, quantity |-> r.quantity] : r \in mine}
      \cup {[size |-> o, quantity |-> 0] :
              o \in {x \in SizeOptions(id) : \A r \in mine : r.size # x}}

RECURSIVE SortByLocale(_)

\* Array.from(combined.entries()).sort((a, b) => a[0].localeCompare(b[0]))
SortByLocale(entries) ==
  IF entries = {} THEN <<>>
  ELSE LET first == CHOOSE e \in entries :
                      \A o \in entries : localeCompare(e.size, o.size) <= 0
       IN  <<first>> \o SortByLocale(entries \ {first})

\* GET /api/admin/product/:id/sizes
AdminSizesGET(e, now, ps, rows, r, fault) ==
  LET asked  == <<"isAdminAuthenticated">>
      loaded == asked \o <<"productSizeInventory.select", "productAttributes.select">>
      auth   == isAdminAuthenticated(e, now, r)
  IN  IF auth = "throw" THEN AdminOutcome(Thrown(asked), ps, rows)
      ELSE IF auth = "false" THEN AdminOutcome(Reply(401, asked), ps, rows)
      ELSE IF r.id = "" THEN AdminOutcome(Reply(400, asked), ps, rows)
      ELSE IF fault.call \in {"productSizeInventory.select", "productAttributes.select"}
      THEN AdminOutcome(Failing(Reply(500, loaded), fault.call), ps, rows)
      ELSE AdminOutcome([Reply(200, loaded) EXCEPT
                           !.sizes = SortByLocale(Combined(rows, r.id))],
                        ps, rows)

\* --------------------------------------------------------- admin requests

\* A PATCH body: fmt as for the checkout, the recognized fields, the
\* sizeInventory and a field the handler does not know (description).
EmptyBody ==
  [fmt |-> "object", name |-> Undef, slug |-> Undef, price |-> Undef,
   regularPrice |-> Undef, salePrice |-> Undef, onSale |-> Undef,
   stockStatus |-> Undef, stockQuantity |-> Undef,
   sizeInventory |-> [t |-> "undefined", items |-> <<>>], description |-> Undef]

OnSaleBody == [EmptyBody EXCEPT !.onSale = JBool(TRUE)]

AdminRequest(endpoint, id, cookie, authorization, body) ==
  [endpoint |-> endpoint, id |-> id, cookie |-> cookie,
   authorization |-> authorization, body |-> body]

\* Requests that try the gate: every cookie with and without the password,
\* and every Authorization header with and without a fresh cookie, at both
\* endpoints for one product.
GateRequests ==
  LET \* Authorization headers.
      AuthorizationHeaders ==
        { NoAuthorization,
          Credentials("Basic", "admin", "hunter2"),
          Credentials("Basic", "", "hunter2"),
          Credentials("Basic", "admin", "hunter3"),
          Credentials("Basic", "admin", "hunter2:"),
          Credentials("Basic", "hunter2", ""),
          [Credentials("Basic", "hunter2", "") EXCEPT !.colon = FALSE],
          Credentials("basic", "admin", "hunter2"),
          Credentials("Bearer", "admin", "hunter2") }
  IN
  LET \* Cookie headers: none, one the server minted at one of CookieTimes, the
      \* same with the spare bits of its signature set, with a signature under a
      \* guessed key or cut short, with no signature or a third part, and a
      \* correctly signed one whose timestamp is no number or has a tail.
      CookieHeaders ==
        LET \* The instants at which a session cookie may have been minted.
            CookieTimes == {a * HalfDay + b : a \in 0..MaxHalfDays, b \in 0..1}
        IN
        LET server == [ADMIN_PASSWORD |-> "hunter2", ADMIN_SECRET |-> AdminSecret]
            guess  == [ADMIN_PASSWORD |-> "hunter2", ADMIN_SECRET |-> "guessed-secret-16"]
        IN  {NoCookie}
            \cup {createSessionCookie(server, t) : t \in CookieTimes}
            \cup {[createSessionCookie(server, t) EXCEPT !.signature.spare = 1] :
                    t \in CookieTimes}
            \cup {createSessionCookie(guess, t) : t \in CookieTimes}
            \cup {[createSessionCookie(server, t) EXCEPT !.signature.len = 16] :
                    t \in CookieTimes}
            \cup {[createSessionCookie(server, 0) EXCEPT !.hasSig = FALSE],
                  [createSessionCookie(server, 0) EXCEPT !.extra = TRUE],
                  Cookie(Text(FALSE, 0, "abc"), sign(server, Text(FALSE, 0, "abc"))),
                  Cookie(Text(TRUE, 0, "x"), sign(server, Text(TRUE, 0, "x"))),
                  Cookie(Text(FALSE, 0, ""), sign(server, Text(FALSE, 0, "")))}
  IN
  LET fresh == createSessionCookie(
                 [ADMIN_PASSWORD |-> "hunter2", ADMIN_SECRET |-> AdminSecret], 0)
  IN  { AdminRequest(ep, "p1", c, a, OnSaleBody) :
          ep \in {"PATCH", "GET"}, c \in CookieHeaders,
          a \in {NoAuthorization, Credentials("Basic", "admin", "hunter2")} }
      \cup { AdminRequest(ep, "p1", c, a, OnSaleBody) :
               ep \in {"PATCH", "GET"}, c \in {NoCookie, fresh},
               a \in AuthorizationHeaders }

\* Requests that try the endpoints: every body for every product id with the
\* password, a few without, and the size listing.
EndpointRequests ==
  LET \* Bodies that carry a sizeInventory, alone or beside a product field.
      SizeBodies ==
        LET \* The sizeInventory values of the bodies.
            SizeInventories ==
              { SizeArray(<<>>),
                SizeArray(<<Item(JStr("M"), JNum(50))>>),
                SizeArray(<<Item(JStr("M"), JNum(0))>>),
                SizeArray(<<Item(JStr(" M "), JStr("2"))>>),
                SizeArray(<<Item(JStr("M"), JNum(-35))>>),
                SizeArray(<<Item(JStr("S"), JNum(27))>>),
                SizeArray(<<Item(JStr("S"), JNull)>>),
                SizeArray(<<Item(JStr("M"), JStr("abc"))>>),
                SizeArray(<<Item(JStr("M"), JNum(10)), Item(JStr("M"), JNum(70))>>),
                SizeArray(<<Item(JStr("XL"), JNum(30)), Item(JStr("S"), JStr("abc"))>>),
                SizeArray(<<Item(JNum(50), JNum(10))>>),
                SizeArray(<<Item(JStr("M"), Undef)>>),
                SizeArray(<<[obj |-> FALSE, size |-> Undef, quantity |-> Undef]>>),
                [t |-> "string", items |-> <<>>] }
        IN
        {[EmptyBody EXCEPT !.sizeInventory = si] : si \in SizeInventories}
        \cup { [EmptyBody EXCEPT !.name = JStr(" Tee 2 "),
                                 !.sizeInventory = SizeArray(<<Item(JStr("M"), JNum(50))>>)],
               [EmptyBody EXCEPT !.onSale = JBool(TRUE),
                                 !.sizeInventory = SizeArray(<<Item(JNum(50), JNum(10))>>)],
               [EmptyBody EXCEPT !.price = JStr("abc"),
                                 !.sizeInventory = SizeArray(<<Item(JStr("M"), JNum(50))>>)] }
  IN
  LET \* Bodies that name product fields only.
      FieldBodies ==
        { [EmptyBody EXCEPT !.fmt = "garbage"],
          [EmptyBody EXCEPT !.fmt = "null"],
          EmptyBody,
          [EmptyBody EXCEPT !.description = JStr("New")],
          [EmptyBody EXCEPT !.name = JStr(" Tee 2 ")],
          [EmptyBody EXCEPT !.name = JNum(50)],
          [EmptyBody EXCEPT !.slug = JStr("shell-jacket")],
          [EmptyBody EXCEPT !.price = JStr("25.00")],
          [EmptyBody EXCEPT !.price = JStr("  ")],
          [EmptyBody EXCEPT !.price = JNum(250)],
          [EmptyBody EXCEPT !.price = JStr("abc")],
          [EmptyBody EXCEPT !.regularPrice = JStr("25.00"), !.salePrice = JStr("0")],
          OnSaleBody,
          [EmptyBody EXCEPT !.onSale = JStr("true")],
          [EmptyBody EXCEPT !.stockStatus = JStr("OUT_OF_STOCK"),
                            !.description = JStr("New")],
          [EmptyBody EXCEPT !.stockStatus = JStr("SOLD")],
          [EmptyBody EXCEPT !.stockQuantity = JNum(70)],
          [EmptyBody EXCEPT !.stockQuantity = JNum(55)],
          [EmptyBody EXCEPT !.stockQuantity = JStr("12abc")] }
  IN
  LET admin == Credentials("Basic", "admin", "hunter2")
  IN  { AdminRequest("PATCH", id, NoCookie, admin, b) :
          id \in {"p1", "p2", "p-unknown"}, b \in FieldBodies \cup SizeBodies }
      \cup { AdminRequest("PATCH", "p1", NoCookie, NoAuthorization, b) :
               b \in {OnSaleBody, [EmptyBody EXCEPT !.fmt = "garbage"],
                      [EmptyBody EXCEPT !.sizeInventory =
                         SizeArray(<<Item(JStr("M"), JNum(50))>>)]} }
      \cup { AdminRequest("GET", id, NoCookie, a, EmptyBody) :
               id \in {"p1", "p2", "p3", "p-unknown"},
               a \in {NoAuthorization, admin} }

\* -------------------------------------------------------- size comparator

\* The longest list of sizes sorted.
MaxLabels == 3

\* String.prototype.toLowerCase and toUpperCase on the labels they change.
ToLowerCase(str) ==
  CASE str = "One Size" -> "one size" [] str = "Tall" -> "tall"
    [] str = "Long" -> "long" [] OTHER -> str

ToUpperCase(str) ==
  CASE str = "One Size" -> "ONE SIZE" [] str = "Tall" -> "TALL"
    [] str = "Long" -> "LONG" [] OTHER -> str

\* sa.replace(/[^\d.]/g, ''): what is left of the labels that hold a digit
\* or a dot.
DigitsAndDots ==
  ("28\"" :> "28") @@ ("30\"" :> "30") @@ ("2XL" :> "2") @@ ("3XL" :> "3")

\* parseFloat(sa.replace(/[^\d.]/g, ''))
NumericPart(sa) ==
  LET \* parseFloat on those texts, in tenths.
      FloatTexts == ("28" :> 280) @@ ("30" :> 300) @@ ("2" :> 20) @@ ("3" :> 30)
  IN
  IF sa \in DOMAIN DigitsAndDots /\ DigitsAndDots[sa] \in DOMAIN FloatTexts
  THEN Fin(FloatTexts[DigitsAndDots[sa]]) ELSE NaN

\* !Number.isNaN(num) && sa.match(/\d/)
IsNum(sa) == ~NumericPart(sa).nan /\ sa \in DOMAIN DigitsAndDots

LETTER_SIZE_ORDER ==
  ("XXS" :> 0) @@ ("XS" :> 1) @@ ("S" :> 2) @@ ("M" :> 3) @@ ("L" :> 4)
  @@ ("XL" :> 5) @@ ("XXL" :> 6) @@ ("2XL" :> 6) @@ ("3XL" :> 7) @@ ("4XL" :> 8)

\* LETTER_SIZE_ORDER[sa.toUpperCase()] ?? 999
LetterOrder(sa) ==
  IF ToUpperCase(sa) \in DOMAIN LETTER_SIZE_ORDER
  THEN LETTER_SIZE_ORDER[ToUpperCase(sa)] ELSE 999

\* The comparator of sortSizesByOrder: negative, zero or positive.
CompareSizes(a, b) ==
  LET sa   == Trim(a.size)
      sb   == Trim(b.size)
      oneA == ToLowerCase(sa) = "one size"
      oneB == ToLowerCase(sb) = "one size"
  IN  IF oneA /\ ~oneB THEN 1
      ELSE IF oneB /\ ~oneA THEN -1
      ELSE IF oneA /\ oneB THEN 0
      ELSE IF IsNum(sa) /\ IsNum(sb) THEN NumericPart(sa).v - NumericPart(sb).v
      ELSE IF IsNum(sa) /\ ~IsNum(sb) THEN -1
      ELSE IF ~IsNum(sa) /\ IsNum(sb) THEN 1
      ELSE LetterOrder(sa) - LetterOrder(sb)

\* One step of Array.prototype.sort under the comparator compare, given as
\* its values on the entries of the list; the sort is stable: x goes behind
\* the entries of the sorted list that do not compare above it.
InsertSorted(compare, sorted, x) ==
  LET k == Cardinality({i \in DOMAIN sorted : compare[sorted[i], x] <= 0})
  IN  SubSeq(sorted, 1, k) \o <<x>> \o SubSeq(sorted, k + 1, Len(sorted))

RECURSIVE SortPrefix(_, _, _)

\* The first n entries of list, sorted under compare.
SortPrefix(compare, list, n) ==
  IF n = 0 THEN <<>>
  ELSE InsertSorted(compare, SortPrefix(compare, list, n - 1), list[n])

\* sortSizesByOrder(list)
sortSizesByOrder(list) ==
  LET entries == {list[i] : i \in DOMAIN list}
  IN  SortPrefix([a \in entries, b \in entries |-> CompareSizes(a, b)], list, Len(list))

\* The lists sorted: up to MaxLabels entries, each with its place in the
\* list for a quantity.
SizeLists ==
  LET \* Size labels: waist sizes, letter sizes, "One Size" and a label of neither
      \* kind.
      SizeLabels ==
        {"28\"", "30\"", "XS", "M", "XXL", "2XL", "3XL", "One Size", "Tall"}
  IN
  UNION { {[i \in 1..n |-> [size |-> labels[i], quantity |-> i]] :
             labels \in [1..n -> SizeLabels]} : n \in 0..MaxLabels }

\* ------------------------------------------------------ public GET sizes

\* sortSizes(list): the endpoint's copy of the comparator, with its copy of
\* LETTER_SIZE_ORDER.
sortSizes(list) ==
  LET entries == {list[i] : i \in DOMAIN list}
      LETTERS ==
        ("XXS" :> 0) @@ ("XS" :> 1) @@ ("S" :> 2) @@ ("M" :> 3) @@ ("L" :> 4)
        @@ ("XL" :> 5) @@ ("XXL" :> 6) @@ ("2XL" :> 6) @@ ("3XL" :> 7) @@ ("4XL" :> 8)
      Order(str) == IF ToUpperCase(str) \in DOMAIN LETTERS
                    THEN LETTERS[ToUpperCase(str)] ELSE 999
      Compare(a, b) ==
        LET sa   == Trim(a.size)
            sb   == Trim(b.size)
            oneA == ToLowerCase(sa) = "one size"
            oneB == ToLowerCase(sb) = "one size"
        IN  IF oneA /\ ~oneB THEN 1
            ELSE IF oneB /\ ~oneA THEN -1
            ELSE IF oneA /\ oneB THEN 0
            ELSE IF IsNum(sa) /\ IsNum(sb) THEN NumericPart(sa).v - NumericPart(sb).v
            ELSE IF IsNum(sa) /\ ~IsNum(sb) THEN -1
            ELSE IF ~IsNum(sa) /\ IsNum(sb) THEN 1
            ELSE Order(sa) - Order(sb)
  IN  SortPrefix([a \in entries, b \in entries |-> Compare(a, b)], list, Len(list))

\* GET /api/product/:slug/sizes: slug is Undef when the route gives none;
\* fault is the select that the database does not answer.
PublicSizesGET(ps, rows, slug, fault) ==
  LET productRow == {p \in ps : p.slug = slug.s}
      mine == {r \in rows : \E p \in productRow : r.productId = p.id}
      asc  == SortByLocale({[size |-> r.size, quantity |-> r.quantity] : r \in mine})
  IN  IF slug.t # "string" \/ slug.s = "" THEN Reply(400, <<>>)
      ELSE IF fault = "products.select"
      THEN Failing(Reply(500, <<"products.select">>), fault)
      ELSE IF productRow = {} THEN Reply(404, <<"products.select">>)
      ELSE IF fault = "productSizeInventory.select"
      THEN Failing(Reply(500, <<"products.select", "productSizeInventory.select">>),
                   fault)
      ELSE [Reply(200, <<"products.select", "productSizeInventory.select">>)
              EXCEPT !.sizes = sortSizes(asc)]

\* ----------------------------------------------------------- catalog reads

\* The largest number of products in a catalog read for its order.
MaxProducts == 3

\* The words that String.prototype.includes finds in the lower-cased names
\* of the products.
Words ==
  ("Beanie" :> {"beanie"}) @@ ("Logo Hoodie" :> {"logo", "hoodie"})
  @@ ("Logo Tee" :> {"logo", "tee"}) @@ ("Quake Tee" :> {"tee"})
  @@ ("Selvedge Jeans" :> {"jeans"}) @@ ("Shell Jacket" :> {"jacket"})
  @@ ("Shell Jacket Black" :> {"jacket", "black"})
  @@ ("Shell Jacket Black/White" :> {"jacket", "black", "white"})
  @@ ("Shell Jacket Blue" :> {"jacket", "blue"}) @@ ("Sticker" :> {})
  @@ ("Therma Jacket" :> {"therma", "jacket"})
  @@ ("Therma Mask" :> {"therma", "mask"})

\* name.toLowerCase().includes(word)
includes(name, word) == word \in Words[name]

getProductTypeOrder(productName) ==
  LET tee == \/ includes(productName, "tee")
             \/ includes(productName, "t-shirt")
             \/ includes(productName, "shirt")
  IN  IF includes(productName, "jacket") THEN 1
      ELSE IF includes(productName, "hoodie") THEN 2
      ELSE IF includes(productName, "logo") /\ tee THEN 3
      ELSE IF tee THEN 4
      ELSE IF includes(productName, "jeans") \/ includes(productName, "denim") THEN 5
      ELSE IF includes(productName, "beanie") THEN 6
      ELSE IF includes(productName, "mask") \/ includes(productName, "therma") THEN 7
      ELSE 99

getJacketPriority(name) ==
  LET hasBlack == includes(name, "black")
      hasWhite == includes(name, "white")
      hasBlue  == includes(name, "blue")
  IN  IF (hasBlack /\ hasWhite) \/ (hasBlack /\ includes(name, "blackwhite")) THEN 1
      ELSE IF hasBlue THEN 2
      ELSE IF hasBlack /\ ~hasWhite THEN 3
      ELSE 4

\* Mutant: jackets are compared by name alone.
CompareProducts_NoJacketPriority(a, b) ==
  IF getProductTypeOrder(a.name) # getProductTypeOrder(b.name)
  THEN getProductTypeOrder(a.name) - getProductTypeOrder(b.name)
  ELSE localeCompare(a.name, b.name)

\* The comparator of productsList.sort: negative, zero or positive.
CompareProducts(a, b) ==
  LET orderA == getProductTypeOrder(a.name)
      orderB == getProductTypeOrder(b.name)
  IN  IF orderA # orderB THEN orderA - orderB
      ELSE IF orderA = 1 /\ getJacketPriority(a.name) # getJacketPriority(b.name)
      THEN getJacketPriority(a.name) - getJacketPriority(b.name)
      ELSE localeCompare(a.name, b.name)

\* The side of a left join that matched nothing.
NullRow == [id |-> SqlNull]

\* The orders in which a query without an ORDER BY for them may return the
\* rows of a table: every enumeration of the rows.
Orderings(table) ==
  {f \in [1..Cardinality(table) -> table] : \A i, j \in DOMAIN f : i # j => f[i] # f[j]}

\* The rows of the base query for the products ps: products left join
\* product_images, product_categories, categories, product_attributes and
\* product_size_inventory, ordered by products.created_at descending.  The
\* database returns the rows of each joined table in the order order gives
\* it and the products of one created_at in the order it gives them.
LeftJoin(ps, cats, order) ==
  LET Of(table, id) ==
        LET Mine(r) == r.productId = id
            mine == SelectSeq(table, Mine)
        IN  IF mine = <<>> THEN <<NullRow>> ELSE mine
      CategoryOf(link) ==
        IF link.id # SqlNull /\ \E c \in cats : c.id = link.categoryId
        THEN CHOOSE c \in cats : c.id = link.categoryId
        ELSE NullRow
      RowsOf(p) ==
        LET is == Of(order.productImages, p.id)
            ls == Of(order.productCategories, p.id)
            as == Of(order.productAttributes, p.id)
            zs == Of(order.inventory, p.id)
        IN  [k \in 1..(Len(is) * Len(ls) * Len(as) * Len(zs)) |->
               [product |-> p,
                image |-> is[((k - 1) \div (Len(ls) * Len(as) * Len(zs))) + 1],
                productCategory |-> ls[(((k - 1) \div (Len(as) * Len(zs))) % Len(ls)) + 1],
                category |->
                  CategoryOf(ls[(((k - 1) \div (Len(as) * Len(zs))) % Len(ls)) + 1]),
                attribute |-> as[(((k - 1) \div Len(zs)) % Len(as)) + 1],
                sizeInventory |-> zs[((k - 1) % Len(zs)) + 1]]]
      RECURSIVE From(_)
      From(i) ==
        IF i > Len(order.products) THEN <<>>
        ELSE IF order.products[i] \in ps THEN RowsOf(order.products[i]) \o From(i + 1)
        ELSE From(i + 1)
  IN  From(1)

\* Mutant: the row's item is pushed whether the list holds it or not.
Push_NoFind(list, keys, x, item) ==
  IF x.id = SqlNull THEN list ELSE Append(list, item)

\* if (x && !list.find(e => key(e) === x.id)) list.push(item): keys are the
\* keys of the list's entries.
Push(list, keys, x, item) ==
  IF x.id = SqlNull \/ x.id \in keys THEN list ELSE Append(list, item)

RECURSIVE GroupFrom(_, _, _)

\* The grouping loop from row i on: productMap, in the order of insertion,
\* after the rows have been read.
GroupFrom(results, i, productMap) ==
  IF i > Len(results) THEN productMap
  ELSE
    LET row == results[i]
        Ids(list) == {list[j].id : j \in DOMAIN list}
        has == \E j \in DOMAIN productMap : productMap[j].product.id = row.product.id
        set == IF has THEN productMap
               ELSE Append(productMap,
                           [product |-> row.product, images |-> <<>>,
                            categories |-> <<>>, attributes |-> <<>>,
                            sizeInventory |-> <<>>])
        at  == CHOOSE j \in DOMAIN set : set[j].product.id = row.product.id
        entry == [product |-> set[at].product,
                  images |-> Push(set[at].images, Ids(set[at].images),
                                  row.image, row.image),
                  categories |->
                    Push(set[at].categories,
                         {set[at].categories[j].categoryId :
                            j \in DOMAIN set[at].categories},
                         row.category,
                         IF row.category.id = SqlNull THEN NullRow
                         ELSE [categoryId |-> row.category.id,
                               name |-> row.category.name,
                               slug |-> row.category.slug]),
                  attributes |-> Push(set[at].attributes, Ids(set[at].attributes),
                                      row.attribute, row.attribute),
                  sizeInventory |->
                    Push(set[at].sizeInventory, Ids(set[at].sizeInventory),
                         row.sizeInventory, row.sizeInventory)]
    IN  GroupFrom(results, i + 1, [set EXCEPT ![at] = entry])

\* formatProduct: thrown when JSON.parse rejects the options of an
\* attribute; image is the sourceUrl of the image chosen (SqlNull for
\* undefined), the collections are given by url or id, each in its order.
formatProduct(entry) ==
  LET primary == {j \in DOMAIN entry.images : entry.images[j].isPrimary}
      primaryImage ==
        IF primary # {}
        THEN entry.images[CHOOSE j \in primary : \A k \in primary : j <= k]
        ELSE IF entry.images # <<>> THEN entry.images[1]
        ELSE NullRow
  IN  [thrown |-> \E j \in DOMAIN entry.attributes :
                    entry.attributes[j].options.fmt = "garbage",
       id |-> entry.product.id,
       name |-> entry.product.name,
       slug |-> entry.product.slug,
       image |-> IF primaryImage.id = SqlNull THEN SqlNull ELSE primaryImage.imageUrl,
       galleryImages |-> [j \in DOMAIN entry.images |-> entry.images[j].imageUrl],
       productCategories |->
         [j \in DOMAIN entry.categories |-> entry.categories[j].categoryId],
       attributes |-> [j \in DOMAIN entry.attributes |-> entry.attributes[j].id],
       sizes |-> sortSizesByOrder([j \in DOMAIN entry.sizeInventory |->
                                     [size |-> entry.sizeInventory[j].size,
                                      quantity |-> entry.sizeInventory[j].quantity]])]

\* What a catalog read gives back: thrown, or null (none), or the list of
\* the products returned.
Returned(list) ==
  IF \E j \in DOMAIN list : list[j].thrown
  THEN [NoResponse EXCEPT !.thrown = TRUE]
  ELSE [NoResponse EXCEPT !.status = 200, !.list = list]

\* getAllProducts(categorySlug): categorySlug is Undef when it is not given.
getAllProducts(ps, cats, links, categorySlug, order) ==
  LET filtered  == categorySlug.t = "string" /\ categorySlug.s # ""
      category  == {c \in cats : filtered /\ c.slug = categorySlug.s}
      ids == {l.productId : l \in {x \in links : \E c \in category : x.categoryId = c.id}}
      map == GroupFrom(LeftJoin(IF filtered THEN {p \in ps : p.id \in ids} ELSE ps,
                                cats, order), 1, <<>>)
      productsList == [j \in DOMAIN map |-> formatProduct(map[j])]
      listed == {productsList[j] : j \in DOMAIN productsList}
  IN  IF filtered /\ (category = {} \/ ids = {}) THEN Returned(<<>>)
      ELSE Returned(SortPrefix([a \in listed, b \in listed |-> CompareProducts(a, b)],
                               productsList, Len(productsList)))

\* getProductBySlug(slug): status 404 stands for the answer null.
getProductBySlug(ps, cats, slug, order) ==
  LET results == LeftJoin({p \in ps : p.slug = slug}, cats, order)
  IN  IF results = <<>> THEN [NoResponse EXCEPT !.status = 404]
      ELSE Returned(<<formatProduct(GroupFrom(results, 1, <<>>)[1])>>)

\* ------------------------------------------------------------ the system

NoRequest == [handler |-> "none"]

\* The product_size_inventory rows at the start.
SeedInventory == {SizeRow("si1", "p2", "S", 2, 0)}

\* The server has started with one of envs for the payment configuration
\* and one of adminEnvs for the admin configuration.
Start(envs, adminEnvs) ==
  /\ env \in envs
  /\ adminEnv \in adminEnvs
  /\ clock = 0
  /\ products = Catalog
  /\ inventory = SeedInventory
  /\ productImages = {}
  /\ categories = {}
  /\ productCategories = {}
  /\ cartButton = [mounted |-> FALSE]
  /\ orders = {}
  /\ invoices = {}
  /\ phase = "idle"
  /\ inflight = NoRequest
  /\ resp = NoResponse
  /\ delivery = "none"

Init ==
  LET \* process.env as read at module load: BTCPAY_WEBHOOK_SECRET ("" when unset)
      \* and whether the gateway credentials are there.
      Environments == [WEBHOOK_SECRET : {"", SharedSecret}, btcpay : BOOLEAN]
  IN  Start(Environments, {[ADMIN_PASSWORD |-> "", ADMIN_SECRET |-> ""]})

\* A webhook request arrives.
ReceiveWebhook ==
  LET WebhookRequests ==
        LET \* Header values sent with body b: none, the gateway's signature of b, the
            \* gateway's signature of another body, a signature under a guessed key, a
            \* SHA-1 signature, and the right digest behind a differently cased prefix.
            SigHeaders(b) ==
              { NoHeader,
                Header(SIG_ALG, Hmac(SIG_ALG, SharedSecret, b)),
                Header(SIG_ALG, Hmac(SIG_ALG, SharedSecret, Original(b))),
                Header(SIG_ALG, Hmac(SIG_ALG, "guess", b)),
                Header("sha1", Hmac("sha1", SharedSecret, b)),
                Header("SHA256", Hmac(SIG_ALG, SharedSecret, b)) }
        IN
        LET RawBodies ==
              LET \* Invoice ids a webhook may name: every id the gateway can issue (issued
                  \* by now or not), and none.
                  WebhookInvoiceIds == {InvoiceId(i) : i \in 1..MaxInvoices} \cup {ABSENT}
              IN
              LET \* The raw request body.  fmt is "garbage" for text JSON.parse rejects,
                  \* "null" for the JSON text null, "object" for a JSON object whose fields
                  \* type and invoiceId are strings or ABSENT.
                  EventTypes ==
                    {"InvoiceProcessing", "InvoiceSettled", "InvoiceExpired", "InvoiceInvalid",
                     "InvoiceCreated", "constructor", ABSENT}
              IN
              { [fmt |-> "garbage", type |-> ABSENT, invoiceId |-> ABSENT],
                [fmt |-> "null", type |-> ABSENT, invoiceId |-> ABSENT] }
              \cup [fmt : {"object"}, type : EventTypes, invoiceId : WebhookInvoiceIds]
        IN
        UNION { {[rawBody |-> b, sig |-> h] : h \in SigHeaders(b)} : b \in RawBodies }
  IN
  /\ phase = "idle"
  /\ \E r \in WebhookRequests :
       inflight' = [handler |-> "webhook", req |-> r]
  /\ phase' = "pending"
  /\ delivery' = "first"
  /\ UNCHANGED <<env, products, orders, invoices, resp>>
  /\ UNCHANGED adminVars

\* A checkout request arrives, its body one of bodies.
ReceiveCheckout(bodies) ==
  /\ phase = "idle"
  /\ \E b \in bodies :
       inflight' = [handler |-> "checkout", req |-> b]
  /\ phase' = "pending"
  /\ delivery' = "first"
  /\ UNCHANGED <<env, products, orders, invoices, resp>>
  /\ UNCHANGED adminVars

\* The webhook handler runs.
HandleWebhook ==
  LET \* The calls of the webhook handler that can fail (the database is away).
      WebhookFaults == {"none", "getOrderByBtcpayInvoiceId", "updateBtcpayOrderStatus"}
  IN
  /\ phase = "pending"
  /\ inflight.handler = "webhook"
  /\ \E fault \in WebhookFaults :
       LET out == WebhookPOST(env, orders, invoices, inflight.req, fault)
       IN  /\ resp' = out.resp
           /\ orders' = out.orders
           /\ invoices' = out.invoices
  /\ phase' = "done"
  /\ UNCHANGED <<env, products, inflight, delivery>>
  /\ UNCHANGED adminVars

\* The checkout handler runs; the gateway issues at most MaxInvoices.
HandleCheckout ==
  LET \* The calls of the checkout handler that can fail (the database or the
      \* gateway is away).
      CheckoutFaults == {"none", "getProductForCheckout", "createInvoice", "createBtcpayOrder"}
  IN
  /\ phase = "pending"
  /\ inflight.handler = "checkout"
  /\ \E fault \in CheckoutFaults :
       LET out == CheckoutPOST(env, products, orders, invoices, inflight.req, fault)
       IN  /\ Cardinality(out.invoices) <= MaxInvoices
           /\ resp' = out.resp
           /\ orders' = out.orders
           /\ invoices' = out.invoices
  /\ phase' = "done"
  /\ UNCHANGED <<env, products, inflight, delivery>>
  /\ UNCHANGED adminVars

\* The gateway delivers the webhook it has just delivered again; the
\* earlier delivery's response stays on record until the handler has run.
Redeliver ==
  /\ phase = "done"
  /\ inflight.handler = "webhook"
  /\ delivery' = "again"
  /\ phase' = "pending"
  /\ UNCHANGED <<env, products, orders, invoices, inflight, resp>>
  /\ UNCHANGED adminVars

\* The response has been returned.
Finish ==
  /\ phase = "done"
  /\ phase' = "idle"
  /\ inflight' = NoRequest
  /\ resp' = NoResponse
  /\ delivery' = "none"
  /\ UNCHANGED <<env, products, orders, invoices, adminVars>>

Next ==
  \/ ReceiveWebhook
  \/ ReceiveCheckout(PlainCheckoutRequests)
  \/ HandleWebhook
  \/ HandleCheckout
  \/ Redeliver
  \/ Finish

Spec == Init /\ [][Next]_vars

\* The checkout handler alone, over every request body.
NextCheckout ==
  \/ ReceiveCheckout(CheckoutRequests)
  \/ HandleCheckout
  \/ Finish

SpecCheckout == Init /\ [][NextCheckout]_vars

\* An admin request arrives, one of requests; a run serves at most
\* MaxRequests of them.
ReceiveAdmin(requests) ==
  /\ phase = "idle"
  /\ clock % HalfDay < MaxRequests
  /\ \E r \in requests :
       inflight' = [handler |-> "admin", req |-> r]
  /\ phase' = "pending"
  /\ delivery' = "first"
  /\ UNCHANGED <<env, products, orders, invoices, resp, adminVars>>

\* The admin PATCH handler runs, and a millisecond passes.
HandleAdminPatch ==
  /\ phase = "pending"
  /\ inflight.handler = "admin"
  /\ inflight.req.endpoint = "PATCH"
  /\ \E fault \in AdminFaults :
       LET out == AdminPATCH(adminEnv, clock, products, inventory, inflight.req, fault)
       IN  /\ resp' = out.resp
           /\ products' = out.products
           /\ inventory' = out.inventory
  /\ clock' = clock + 1
  /\ phase' = "done"
  /\ UNCHANGED <<env, orders, invoices, inflight, delivery, adminEnv,
                 productImages, categories, productCategories, cartButton>>

\* The admin size listing runs, and a millisecond passes.
HandleAdminSizes ==
  /\ phase = "pending"
  /\ inflight.handler = "admin"
  /\ inflight.req.endpoint = "GET"
  /\ \E fault \in AdminFaults :
       LET out == AdminSizesGET(adminEnv, clock, products, inventory, inflight.req,
                                fault)
       IN  /\ resp' = out.resp
           /\ products' = out.products
           /\ inventory' = out.inventory
  /\ clock' = clock + 1
  /\ phase' = "done"
  /\ UNCHANGED <<env, orders, invoices, inflight, delivery, adminEnv,
                 productImages, categories, productCategories, cartButton>>

\* Half a day passes between two requests.
Tick ==
  /\ phase = "idle"
  /\ clock \div HalfDay < MaxHalfDays
  /\ clock' = clock + HalfDay
  /\ UNCHANGED <<env, products, orders, invoices, phase, inflight, resp, delivery,
                 adminEnv, inventory, productImages, categories,
                 productCategories, cartButton>>

\* The payment configuration of a server whose payment path is left alone.
NoPayments == [WEBHOOK_SECRET |-> "", btcpay |-> FALSE]

\* The admin gate under every admin configuration, over GateRequests.
InitAuth ==
  LET \* process.env as the admin gate reads it ("" when unset).
      AdminEnvironments ==
        [ADMIN_PASSWORD : {"", "   ", "hunter2"}, ADMIN_SECRET : {"", "short", AdminSecret}]
  IN  Start({NoPayments}, AdminEnvironments)

NextAuth ==
  \/ ReceiveAdmin(GateRequests)
  \/ HandleAdminPatch
  \/ HandleAdminSizes
  \/ Tick
  \/ Finish

SpecAuth == InitAuth /\ [][NextAuth]_vars

\* The admin endpoints behind a configured gate, over EndpointRequests.
InitAdmin ==
  Start({NoPayments}, {[ADMIN_PASSWORD |-> "hunter2", ADMIN_SECRET |-> AdminSecret]})

NextAdmin ==
  \/ ReceiveAdmin(EndpointRequests)
  \/ HandleAdminPatch
  \/ HandleAdminSizes
  \/ Finish

SpecAdmin == InitAdmin /\ [][NextAdmin]_vars

\* The catalog read is about to sort one of SizeLists.
InitSizes ==
  /\ env = NoPayments
  /\ adminEnv = [ADMIN_PASSWORD |-> "", ADMIN_SECRET |-> ""]
  /\ clock = 0
  /\ products = Catalog
  /\ inventory = SeedInventory
  /\ productImages = {}
  /\ categories = {}
  /\ productCategories = {}
  /\ cartButton = [mounted |-> FALSE]
  /\ orders = {}
  /\ invoices = {}
  /\ phase = "pending"
  /\ inflight \in [handler : {"sortSizesByOrder"}, req : SizeLists]
  /\ resp = NoResponse
  /\ delivery = "none"

\* The list is sorted.
SortSizes ==
  /\ phase = "pending"
  /\ inflight.handler = "sortSizesByOrder"
  /\ resp' = [NoResponse EXCEPT !.calls = <<"sortSizesByOrder">>,
                                !.sizes = sortSizesByOrder(inflight.req)]
  /\ phase' = "done"
  /\ UNCHANGED <<env, products, orders, invoices, inflight, delivery, adminVars>>

SpecSizes == InitSizes /\ [][SortSizes]_vars

\* A database of Catalogs is in place and the server is idle.
InitCatalog ==
  LET \* The databases read.  Either up to MaxProducts products under names of
      \* the catalog, created one after the other, and nothing beside them; or the product p4 with nothing linked to it beside
      \* one of p1 and p2 (first) with images, categories and sizes.
      Catalogs ==
        LET \* A categories row.
            Category(id, name, slug) == [id |-> id, name |-> name, slug |-> slug]
        IN
        LET \* A product_images row.
            ProductImage(id, productId, isPrimary, sortOrder) ==
              [id |-> id, productId |-> productId, imageUrl |-> "https://cdn.example/" \o id,
               isPrimary |-> isPrimary, sortOrder |-> sortOrder]
        IN
        { [products |-> {[Product("w" \o ToString(i), Collation[i],
                                  "w" \o ToString(i), Price(1000))
                            EXCEPT !.createdAt = i] : i \in picked},
           productImages |-> {}, categories |-> {}, productCategories |-> {},
           inventory |-> {}] :
            picked \in {x \in SUBSET {i \in DOMAIN Collation : Collation[i] \in DOMAIN Words} :
                          x # {} /\ Cardinality(x) <= MaxProducts} }
        \cup
        UNION {
          [products : {{p \in Catalog : p.id \in {first, "p4"}}},
           productImages :
             { {},
               {ProductImage("img1", first, FALSE, 0)},
               {ProductImage("img1", first, FALSE, 1), ProductImage("img2", first, FALSE, 0)},
               {ProductImage("img1", first, FALSE, 0), ProductImage("img2", first, TRUE, 1)},
               {ProductImage("img1", first, TRUE, 0), ProductImage("img2", "p4", FALSE, 0)} },
           categories : {{Category("c1", "Tops", "tops"), Category("c2", "Bottoms", "bottoms")}},
           productCategories :
             { {},
               {[id |-> "l1", productId |-> first, categoryId |-> "c1"]},
               {[id |-> "l1", productId |-> first, categoryId |-> "c1"],
                [id |-> "l2", productId |-> first, categoryId |-> "c1"]},
               {[id |-> "l1", productId |-> first, categoryId |-> "c1"],
                [id |-> "l2", productId |-> first, categoryId |-> "c2"],
                [id |-> "l3", productId |-> "p4", categoryId |-> "c1"]} },
           inventory :
             { {},
               {SizeRow("si1", first, "S", 2, 0), SizeRow("si2", first, "M", 0, 0)},
               {SizeRow("si1", first, "Tall", 2, 0), SizeRow("si2", first, "Long", 1, 0)} }] :
          first \in {"p1", "p2"} }
  IN
  /\ \E db \in Catalogs :
       /\ products = db.products
       /\ productImages = db.productImages
       /\ categories = db.categories
       /\ productCategories = db.productCategories
       /\ inventory = db.inventory
  /\ cartButton = [mounted |-> FALSE]
  /\ env = NoPayments
  /\ adminEnv = [ADMIN_PASSWORD |-> "", ADMIN_SECRET |-> ""]
  /\ clock = 0
  /\ orders = {}
  /\ invoices = {}
  /\ phase = "idle"
  /\ inflight = NoRequest
  /\ resp = NoResponse
  /\ delivery = "none"

\* A page asks for a catalog read.
ReceiveRead ==
  LET \* The reads asked for: the two catalog reads of the pages, and the public
      \* size listing of a product.
      CatalogReads ==
        [fn : {"getAllProducts"},
         arg : {Undef, JStr(""), JStr("tops"), JStr("bottoms"), JStr("nope")}]
        \cup [fn : {"getProductBySlug"},
              arg : {JStr("logo-tee"), JStr("shell-jacket"), JStr("therma-mask"), JStr("nope")}]
        \cup [fn : {"GET sizes"},
              arg : {Undef, JStr("logo-tee"), JStr("shell-jacket"), JStr("therma-mask"),
                     JStr("nope")}]
  IN
  /\ phase = "idle"
  /\ \E r \in CatalogReads :
       inflight' = [handler |-> "catalog", req |-> r]
  /\ phase' = "pending"
  /\ delivery' = "first"
  /\ UNCHANGED <<env, products, orders, invoices, resp, adminVars>>

\* The read runs; the database returns the joined rows in an order of its
\* own.
HandleRead ==
  /\ phase = "pending"
  /\ inflight.handler = "catalog"
  /\ inflight.req.fn # "GET sizes"
  /\ \E order \in [products : {o \in Orderings(products) :
                                  \A i, j \in DOMAIN o :
                                    i < j => o[i].createdAt >= o[j].createdAt},
                     productImages : Orderings(productImages),
                     productCategories : Orderings(productCategories),
                     productAttributes :
                       Orderings({a \in productAttributes :
                                    \E p \in products : p.id = a.productId}),
                     inventory : Orderings(inventory)] :
       resp' = IF inflight.req.fn = "getAllProducts"
               THEN getAllProducts(products, categories, productCategories,
                                   inflight.req.arg, order)
               ELSE getProductBySlug(products, categories, inflight.req.arg.s, order)
  /\ phase' = "done"
  /\ UNCHANGED <<env, products, orders, invoices, inflight, delivery, adminVars>>

\* The public size listing runs.
HandleSizes ==
  /\ phase = "pending"
  /\ inflight.handler = "catalog"
  /\ inflight.req.fn = "GET sizes"
  /\ \E fault \in {"none", "products.select", "productSizeInventory.select"} :
       resp' = PublicSizesGET(products, inventory, inflight.req.arg, fault)
  /\ phase' = "done"
  /\ UNCHANGED <<env, products, orders, invoices, inflight, delivery, adminVars>>

NextCatalog ==
  \/ ReceiveRead
  \/ HandleRead
  \/ HandleSizes
  \/ Finish

SpecCatalog == InitCatalog /\ [][NextCatalog]_vars

\* Mutant: the table has no unique constraint.
productSizeUnique_Absent(rows, productId, size) == TRUE

\* unique('product_size_unique').on(productId, size): the table takes a row
\* for (productId, size) when it holds none.
productSizeUnique(rows, productId, size) ==
  ExistingSizeRows(rows, productId, size) = {}

\* Two PATCH requests for product p2 stand before their loops.
InitRace ==
  LET \* A PATCH handler that has found its product and stands before the loop
      \* over its sizeInventory: i is the entry it is at, at the call it makes
      \* next, existing what its select returned, status its answer once returned.
      Racer(raw) ==
        [items |-> SizeInventory(raw), i |-> 1, at |-> "select", existing |-> "",
         status |-> 0]
  IN
  LET \* The sizeInventory values of two PATCH requests that arrive together.
      RacingInventories ==
        { SizeArray(<<Item(JStr("M"), JNum(50))>>),
          SizeArray(<<Item(JStr("M"), JNum(70))>>),
          SizeArray(<<Item(JStr("S"), JNum(30)), Item(JStr("M"), JNum(10))>>),
          SizeArray(<<Item(JStr(" M "), JStr("4")), Item(JStr("S"), JNum(60))>>),
          SizeArray(<<Item(JStr("XL"), JNum(10)), Item(JStr("M"), JNum(-35))>>) }
  IN
  /\ env = NoPayments
  /\ adminEnv = [ADMIN_PASSWORD |-> "hunter2", ADMIN_SECRET |-> AdminSecret]
  /\ clock = 0
  /\ products = Catalog
  /\ inventory = SeedInventory
  /\ productImages = {}
  /\ categories = {}
  /\ productCategories = {}
  /\ cartButton = [mounted |-> FALSE]
  /\ orders = {}
  /\ invoices = {}
  /\ phase = "pending"
  /\ resp = NoResponse
  /\ delivery = "first"
  /\ \E a, b \in RacingInventories :
       inflight = [handler |-> "race",
                   req |-> [id |-> "p2", a |-> Racer(a), b |-> Racer(b)]]

\* Handler p awaits the select of the row of the size it is at (limit 1).
SelectSize(p) ==
  LET me    == inflight.req[p]
      found == ExistingSizeRows(inventory, inflight.req.id, me.items[me.i].size)
  IN  /\ inflight.handler = "race"
      /\ me.at = "select"
      /\ inflight' = [inflight EXCEPT
           !.req[p].at = "write",
           !.req[p].existing = IF found = {} THEN ""
                               ELSE (CHOOSE r \in found : TRUE).id]
      /\ UNCHANGED <<env, products, orders, invoices, phase, resp, delivery,
                     adminVars>>

\* Handler p awaits its write: the update of the row it selected, or the
\* insert of a new one, which the unique constraint may refuse (the catch
\* answers 500); after the last entry it answers 200.
WriteSize(p) ==
  LET me   == inflight.req[p]
      id   == inflight.req.id
      item == me.items[me.i]
      next == IF me.i = Len(me.items)
              THEN [me EXCEPT !.at = "done", !.status = 200]
              ELSE [me EXCEPT !.at = "select", !.i = me.i + 1]
  IN  /\ inflight.handler = "race"
      /\ me.at = "write"
      /\ IF me.existing # ""
         THEN /\ inventory' = UpdateSizeRow(inventory, me.existing, item.quantity,
                                            clock)
              /\ inflight' = [inflight EXCEPT !.req[p] = next]
         ELSE IF productSizeUnique(inventory, id, item.size)
         THEN /\ inventory' = InsertSizeRow(inventory, id, item.size,
                                            item.quantity, clock)
              /\ inflight' = [inflight EXCEPT !.req[p] = next]
         ELSE /\ inventory' = inventory
              /\ inflight' = [inflight EXCEPT !.req[p].at = "done",
                                              !.req[p].status = 500]
      /\ clock' = clock + 1
      /\ UNCHANGED <<env, products, orders, invoices, phase, resp, delivery,
                     adminEnv, productImages, categories, productCategories,
                     cartButton>>

NextRace ==
  \/ SelectSize("a")
  \/ SelectSize("b")
  \/ WriteSize("a")
  \/ WriteSize("b")

SpecRace == InitRace /\ [][NextRace]_vars

\* ------------------------------------------------------------- CartButton

\* Activations of a payment button one page sees.
MaxClicks == 3

hasSizes(c) == Len(c.sizes) > 0

needsSize(c) == hasSizes(c) /\ ~Truthy(c.selectedSize)

\* Mutant: a button is disabled for a missing size only.
Disabled_IgnoresLoading(c) == needsSize(c)

\* disabled={needsSize || isLoading !== null}
Disabled(c) == needsSize(c) \/ c.isLoading # ABSENT

handleStripeCheckout(c) ==
  IF needsSize(c) \/ ~Truthy(c.stripeCheckoutUrl) THEN c
  ELSE [c EXCEPT !.location = c.stripeCheckoutUrl]

handleStripeFallback(c) ==
  IF needsSize(c) THEN c
  ELSE [c EXCEPT !.isLoading = "card", !.error = ABSENT,
                 !.fetches = Append(c.fetches, [by |-> "card", size |-> ABSENT])]

handleBtcpayCheckout(c) ==
  IF needsSize(c) THEN c
  ELSE [c EXCEPT !.isLoading = "bitcoin", !.error = ABSENT,
                 !.fetches = Append(c.fetches,
                                    [by |-> "bitcoin",
                                     size |-> IF Truthy(c.selectedSize)
                                              THEN c.selectedSize ELSE ABSENT])]

\* The rest of the handler that awaited fetch f, once it settles with how.
Settle(c, f, how) ==
  LET failed(message) == [c EXCEPT !.error = message, !.isLoading = ABSENT]
  IN  IF how = "rejected" THEN failed("Failed to fetch")
      ELSE IF f.by = "card"
      THEN IF how = "not ok" THEN failed("Failed to get checkout URL")
           ELSE IF how = "no json" THEN failed("Unexpected token")
           ELSE IF how = "checkoutUrl"
           THEN [c EXCEPT !.location = "https://buy.stripe.com/fetched"]
           ELSE failed("No checkout URL available")
      ELSE IF how = "no json" THEN failed("Unexpected token")
           ELSE IF how = "not ok" THEN failed("Request failed (500)")
           ELSE IF how = "checkoutUrl"
           THEN [c EXCEPT !.location = "https://btcpay.example/i/inv1"]
           ELSE failed("No checkout URL in response")

\* A product page mounts the component; the wrapper may already carry a
\* selected size.
InitCart ==
  LET \* The component as mounted: its props (stripeCheckoutUrl, sizes,
      \* btcpayAvailable), its state (isLoading, error, selectedSize, ABSENT for
      \* null), the fetches that have not settled, where window.location points,
      \* and the number of activations so far.
      Mounted(url, sizes, btcpay, current) ==
        [mounted |-> TRUE, stripeCheckoutUrl |-> url, sizes |-> sizes,
         btcpayAvailable |-> btcpay, isLoading |-> ABSENT, error |-> ABSENT,
         selectedSize |-> IF Len(sizes) > 0 /\ Truthy(current) THEN current ELSE ABSENT,
         fetches |-> <<>>, location |-> "/product", clicks |-> 0]
  IN
  /\ env = NoPayments
  /\ adminEnv = [ADMIN_PASSWORD |-> "", ADMIN_SECRET |-> ""]
  /\ clock = 0
  /\ products = Catalog
  /\ inventory = SeedInventory
  /\ productImages = {}
  /\ categories = {}
  /\ productCategories = {}
  /\ orders = {}
  /\ invoices = {}
  /\ phase = "idle"
  /\ inflight = NoRequest
  /\ resp = NoResponse
  /\ delivery = "none"
  /\ \E url \in {ABSENT, "", "https://buy.stripe.com/link"},
        sizes \in {<<>>, <<[size |-> "M", quantity |-> 1]>>},
        btcpay \in BOOLEAN, current \in {ABSENT, "M"} :
       cartButton = Mounted(url, sizes, btcpay, current)

\* The wrapper dispatches size-selected, with a size or without one, on the
\* page that mounted the component.
SizeSelected ==
  /\ cartButton.mounted
  /\ cartButton.location = "/product"
  /\ hasSizes(cartButton)
  /\ \E size \in {ABSENT, "M", "L"} :
       cartButton' = [cartButton EXCEPT !.selectedSize = size]
  /\ UNCHANGED <<env, products, orders, invoices, phase, inflight, resp, delivery,
                 adminEnv, clock, inventory, productImages, categories,
                 productCategories>>

\* The user activates the card button; a disabled button runs no handler.
ActivateCard ==
  LET hasStripe(c) == Truthy(c.stripeCheckoutUrl)
  IN
  /\ cartButton.mounted
  /\ cartButton.location = "/product"
  /\ cartButton.clicks < MaxClicks
  /\ hasStripe(cartButton)
  /\ LET c == [cartButton EXCEPT !.clicks = cartButton.clicks + 1]
     IN  cartButton' = IF Disabled(c) THEN c
                       ELSE IF Truthy(c.stripeCheckoutUrl)
                       THEN handleStripeCheckout(c)
                       ELSE handleStripeFallback(c)
  /\ UNCHANGED <<env, products, orders, invoices, phase, inflight, resp, delivery,
                 adminEnv, clock, inventory, productImages, categories,
                 productCategories>>

\* The user activates the Bitcoin button; a disabled button runs no handler.
ActivateBitcoin ==
  /\ cartButton.mounted
  /\ cartButton.location = "/product"
  /\ cartButton.clicks < MaxClicks
  /\ cartButton.btcpayAvailable
  /\ LET c == [cartButton EXCEPT !.clicks = cartButton.clicks + 1]
     IN  cartButton' = IF Disabled(c) THEN c ELSE handleBtcpayCheckout(c)
  /\ UNCHANGED <<env, products, orders, invoices, phase, inflight, resp, delivery,
                 adminEnv, clock, inventory, productImages, categories,
                 productCategories>>

\* A fetch settles and the handler that awaited it runs on.
FetchSettles ==
  LET \* What a fetch settles with: a rejection, a body that is no JSON, an error
      \* status, a 200 with a checkoutUrl or a 200 without one.
      Settlements == {"rejected", "no json", "not ok", "checkoutUrl", "no checkoutUrl"}
  IN
  /\ cartButton.mounted
  /\ cartButton.location = "/product"
  /\ \E i \in DOMAIN cartButton.fetches, how \in Settlements :
       LET f    == cartButton.fetches[i]
           rest == SubSeq(cartButton.fetches, 1, i - 1)
                   \o SubSeq(cartButton.fetches, i + 1, Len(cartButton.fetches))
       IN  cartButton' = [Settle(cartButton, f, how) EXCEPT !.fetches = rest]
  /\ UNCHANGED <<env, products, orders, invoices, phase, inflight, resp, delivery,
                 adminEnv, clock, inventory, productImages, categories,
                 productCategories>>

NextCart ==
  \/ SizeSelected
  \/ ActivateCard
  \/ ActivateBitcoin
  \/ FetchSettles

SpecCart == InitCart /\ [][NextCart]_vars

\* --------------------------------------------------------------- claims

\* The step in which the handler of the request in flight runs.
WebhookRuns == phase = "pending" /\ phase' = "done" /\ inflight.handler = "webhook"

CheckoutRuns == phase = "pending" /\ phase' = "done" /\ inflight.handler = "checkout"

\* A webhook, or a checkout, has been handled and its response is at hand.
WebhookDone == phase = "done" /\ inflight.handler = "webhook"

CheckoutDone == phase = "done" /\ inflight.handler = "checkout"

\* The header is 'sha256=' + hex HMAC-SHA256(secret, raw body).
ValidlySigned(r) ==
  /\ env.WEBHOOK_SECRET # ""
  /\ r.sig = <<"sha256", Hmac("sha256", env.WEBHOOK_SECRET, r.rawBody)>>

MappedEvents == {"InvoiceProcessing", "InvoiceSettled", "InvoiceExpired", "InvoiceInvalid"}

\* The status the spec's table gives a mapped event.
MappedStatus(type) ==
  CASE type = "InvoiceProcessing" -> "processing"
    [] type = "InvoiceSettled"    -> "settled"
    [] type = "InvoiceExpired"    -> "expired"
    [] type = "InvoiceInvalid"    -> "invalid"

\* The order rows kept under invoice id inv.
OrdersOf(os, inv) == {o \in os : o.btcpayInvoiceId = inv}

Touched(calls, names) == \E i \in 1..Len(calls) : calls[i] \in names

\* C1: a webhook whose BTCPAY-SIG header is absent or differs from
\* 'sha256=' + HMAC-SHA256(secret, raw body) is answered 401, and any webhook
\* is answered 500 when no secret is configured; either way the handler has
\* parsed nothing, looked up and updated no order, and the order rows are
\* what they were.
C1_BadSignatureRejected ==
  [][ WebhookRuns =>
        /\ env.WEBHOOK_SECRET = "" => resp'.status = 500
        /\ (env.WEBHOOK_SECRET # "" /\ ~ValidlySigned(inflight.req)) =>
             resp'.status = 401
        /\ ~ValidlySigned(inflight.req) =>
             /\ ~resp'.thrown
             /\ ~Touched(resp'.calls, {"JSON.parse", "getOrderByBtcpayInvoiceId",
                                       "updateBtcpayOrderStatus"})
             /\ orders' = orders ]_vars

\* C1 witness: a settled event forged from a signed expired event for the
\* invoice of a pending order, under the sender's well-formed digest, has
\* been answered 401 and the order is still pending.
C1_Witness ==
  /\ WebhookDone
  /\ inflight.req.rawBody.type = "InvoiceSettled"
  /\ inflight.req.sig =
       <<"sha256", Hmac("sha256", SharedSecret, Original(inflight.req.rawBody))>>
  /\ resp.status = 401
  /\ \E o \in OrdersOf(orders, inflight.req.rawBody.invoiceId) : o.status = "pending"

\* The spec's state machine read as widely as its words allow: forward from
\* pending (to processing or straight to a terminal status), forward from
\* processing to a terminal status, and nothing out of a terminal status.
AllowedMoves ==
  { <<"pending", "processing">>, <<"pending", "settled">>,
    <<"pending", "expired">>, <<"pending", "invalid">>,
    <<"processing", "settled">>, <<"processing", "expired">>,
    <<"processing", "invalid">> }

\* C2 (as claimed): a webhook delivery moves an order's status only forward
\* along pending -> processing -> settled, pending -> expired or
\* pending -> invalid; once the status is settled, expired or invalid no
\* later delivery changes it.
C2_StatusMachine ==
  [][ \A o \in orders : \A n \in orders' :
        (n.id = o.id /\ n.status # o.status) =>
          /\ <<o.status, n.status>> \in AllowedMoves
          /\ o.status \notin {"settled", "expired", "invalid"} ]_vars

\* C3: a validly signed webhook of a mapped type for the invoice of an
\* existing order, the database answering, sets that order's status to the
\* mapped status whatever it was before, leaves every other row and column
\* alone, and is answered 200.
C3_MappedEventOverwrites ==
  [][ ( /\ WebhookRuns
        /\ ValidlySigned(inflight.req)
        /\ inflight.req.rawBody.fmt = "object"
        /\ inflight.req.rawBody.type \in MappedEvents
        /\ OrdersOf(orders, inflight.req.rawBody.invoiceId) # {}
        /\ resp'.failed = "" ) =>
        /\ resp'.status = 200
        /\ orders' =
             { IF o.btcpayInvoiceId = inflight.req.rawBody.invoiceId
               THEN [o EXCEPT !.status = MappedStatus(inflight.req.rawBody.type)]
               ELSE o : o \in orders } ]_vars

\* C3 witness: an expired event has been delivered a first time for an order
\* that a second order stands beside, answered 200, and the order is expired.
C3_Witness ==
  /\ WebhookDone
  /\ delivery = "first"
  /\ ValidlySigned(inflight.req)
  /\ inflight.req.rawBody.type = "InvoiceExpired"
  /\ resp.status = 200
  /\ \E o \in OrdersOf(orders, inflight.req.rawBody.invoiceId) : o.status = "expired"
  /\ \E o \in orders : o.btcpayInvoiceId # inflight.req.rawBody.invoiceId
                       /\ o.status = "settled"

\* C4 (as claimed): a validly signed webhook that names an invoice and whose
\* event type is not in the mapping table is answered 200 and changes no
\* order row (whatever the database would have answered).
C4_UnmappedEventAcknowledged ==
  [][ ( /\ WebhookRuns
        /\ ValidlySigned(inflight.req)
        /\ inflight.req.rawBody.fmt = "object"
        /\ Truthy(inflight.req.rawBody.invoiceId)
        /\ inflight.req.rawBody.type \notin MappedEvents
        /\ resp'.failed = "" ) =>
        /\ resp'.status = 200
        /\ orders' = orders ]_vars

\* C5: when a validly signed webhook of a mapped type that was answered 200
\* is delivered again and the database answers, it is answered 200 again and
\* the order rows are what the first delivery left; a settled event delivered
\* twice leaves the order settled.
C5_RedeliverySameOutcome ==
  [][ ( /\ WebhookRuns
        /\ delivery = "again"
        /\ ValidlySigned(inflight.req)
        /\ inflight.req.rawBody.fmt = "object"
        /\ inflight.req.rawBody.type \in MappedEvents
        /\ resp.status = 200
        /\ resp'.failed = "" ) =>
        /\ resp'.status = 200
        /\ orders' = orders
        /\ inflight.req.rawBody.type = "InvoiceSettled" =>
             /\ OrdersOf(orders', inflight.req.rawBody.invoiceId) # {}
             /\ \A o \in OrdersOf(orders', inflight.req.rawBody.invoiceId) :
                  o.status = "settled" ]_vars

\* C5 witness: the second delivery of a settled event has been answered 200
\* and the order is settled.
C5_Witness ==
  /\ WebhookDone
  /\ delivery = "again"
  /\ ValidlySigned(inflight.req)
  /\ inflight.req.rawBody.type = "InvoiceSettled"
  /\ resp.status = 200
  /\ "updateBtcpayOrderStatus" = resp.calls[Len(resp.calls)]
  /\ \E o \in OrdersOf(orders, inflight.req.rawBody.invoiceId) : o.status = "settled"

FirstCall(calls, name) ==
  IF \E i \in 1..Len(calls) : calls[i] = name
  THEN CHOOSE i \in 1..Len(calls) :
         calls[i] = name /\ \A j \in 1..(i - 1) : calls[j] # name
  ELSE 0

\* C7: the order row is written only after the gateway has created the
\* invoice: a checkout that adds a row has called createInvoice before
\* createBtcpayOrder, nothing failed, and the row is kept under the invoice
\* just issued; when createInvoice throws, the answer is an error status and
\* the order rows are exactly what they were.
C7_OrderOnlyAfterInvoice ==
  [][ CheckoutRuns =>
        /\ resp'.failed = "createInvoice" =>
             /\ ~resp'.thrown
             /\ resp'.status >= 400
             /\ orders' = orders
        /\ orders' # orders =>
             /\ resp'.failed = ""
             /\ FirstCall(resp'.calls, "createInvoice") > 0
             /\ FirstCall(resp'.calls, "createInvoice")
                  < FirstCall(resp'.calls, "createBtcpayOrder")
             /\ orders \subseteq orders'
             /\ \A o \in orders' \ orders :
                  \E i \in invoices' \ invoices : o.btcpayInvoiceId = i.id ]_vars

\* C7 witness: createInvoice has thrown for a checkout of a product on sale,
\* the answer is 500, and the one order row of an earlier checkout is all
\* there is.
C7_Witness ==
  /\ CheckoutDone
  /\ resp.failed = "createInvoice"
  /\ resp.status = 500
  /\ Cardinality(orders) = 1
  /\ Cardinality(invoices) = 1

\* The body carries no productId.
NoProductId(b) == b.fmt = "null" \/ b.productId.t = "undefined"

\* The products the body's productId names.
Named(b) == {p \in products : b.productId.t = "string" /\ p.id = b.productId.s}

\* C8 (as claimed): the checkout is answered 503 when the gateway is not
\* configured, before the body is read; else 400 when the body is no valid
\* JSON or carries no productId; else 404 when no product has that id; else
\* 400 when the product's price is missing or not positive (the product
\* lookup answering); and in each of these cases createInvoice is not called
\* and no order row and no invoice is made.
C8_RejectedBeforeGateway ==
  [][ CheckoutRuns =>
        LET b       == inflight.req
            noBody  == b.fmt = "garbage" \/ NoProductId(b)
            unknown == ~noBody /\ b.productId.t = "string" /\ Named(b) = {}
            unpriced == ~noBody /\ \E p \in Named(b) : p.price.null \/ p.price.cents <= 0
        IN  /\ ~env.btcpay =>
                 resp'.status = 503 /\ ~Touched(resp'.calls, {"request.json"})
            /\ (env.btcpay /\ noBody) => resp'.status = 400
            /\ (env.btcpay /\ unknown /\ resp'.failed = "") => resp'.status = 404
            /\ (env.btcpay /\ unpriced /\ resp'.failed = "") => resp'.status = 400
            /\ (~env.btcpay \/ noBody \/ unknown \/ unpriced) =>
                 /\ ~Touched(resp'.calls, {"createInvoice", "createBtcpayOrder"})
                 /\ orders' = orders
                 /\ invoices' = invoices ]_vars

\* A validly signed settled event for invoice inv.
SettledEvent(inv) ==
  LET b == [fmt |-> "object", type |-> "InvoiceSettled", invoiceId |-> inv]
  IN  [rawBody |-> b, sig |-> <<"sha256", Hmac("sha256", env.WEBHOOK_SECRET, b)>>]

\* The quantity the spec gives request quantity q: the floor of a numeric q
\* clamped to 1..99, and 1 for a missing or non-numeric q.
IsClampOf(x, q) ==
  LET numeric == q.t = "number" \/ (q.t = "string" /\ q.s \in DOMAIN NumericStrings)
      v       == IF q.t = "number" THEN q.n ELSE NumericStrings[q.s]
  IN  IF ~numeric THEN x = 1
      ELSE IF v < 10 THEN x = 1
      ELSE IF v >= 990 THEN x = 99
      ELSE x * 10 <= v /\ v < (x + 1) * 10

\* C9: a checkout answered 200 has added exactly one order row: pending,
\* with the clamped quantity, the id and name of the product asked for, and
\* kept under the id of the one invoice the gateway issued for it; the
\* response carries the row's id and the invoice's checkout link; the row is
\* the only one under that invoice id, so a validly signed settled event for
\* it settles exactly that row.
C9_OneOrderPerCheckout ==
  [][ (CheckoutRuns /\ resp'.status = 200) =>
        \E row \in orders' : \E inv \in invoices' :
          /\ row \notin orders /\ orders' = orders \cup {row}
          /\ inv \notin invoices /\ invoices' = invoices \cup {inv}
          /\ \A o \in orders : o.id # row.id
          /\ row.status = "pending"
          /\ IsClampOf(row.quantity, inflight.req.quantity)
          /\ \E p \in products :
               /\ JStr(p.id) = inflight.req.productId
               /\ row.productId = p.id
               /\ row.productName = p.name
          /\ row.btcpayInvoiceId = inv.id
          /\ resp'.orderId = row.id
          /\ resp'.checkoutUrl = inv.checkoutLink
          /\ OrdersOf(orders', inv.id) = {row}
          /\ env.WEBHOOK_SECRET # "" =>
               WebhookPOST(env, orders', invoices', SettledEvent(inv.id), "none").orders
                 = orders \cup {[row EXCEPT !.status = "settled"]} ]_vars

\* C9 witness: the second checkout has been answered 200 for the other
\* product, 99 units in size M, and there are two order rows.
C9_Witness ==
  /\ CheckoutDone
  /\ resp.status = 200
  /\ Cardinality(orders) = 2
  /\ \E o \in orders :
       /\ o.id = resp.orderId
       /\ o.quantity = 99
       /\ o.size = "M"
       /\ \E n \in orders : n.productId # o.productId

\* C10: every stored quantity is an integer in 1..99, and a checkout
\* answered 200 has used, for the stored row and for the amount billed, the
\* floor of the numeric request quantity clamped to 1..99, or 1 when the
\* request quantity is missing, non-numeric or zero.
C10_QuantityClamped ==
  /\ \A o \in orders : o.quantity \in 1..99
  /\ (CheckoutDone /\ resp.status = 200) =>
       \E o \in orders : \E i \in invoices : \E p \in products :
         /\ o.id = resp.orderId
         /\ i.id = o.btcpayInvoiceId
         /\ p.id = o.productId
         /\ IsClampOf(o.quantity, inflight.req.quantity)
         /\ o.amount = p.price.cents * o.quantity
         /\ i.amount = o.amount

\* C10 witness: a request for 2.7 units has been answered 200 and stored as 2
\* units, beside an earlier order of 1 or 99 units.
C10_Witness ==
  /\ CheckoutDone
  /\ resp.status = 200
  /\ inflight.req.quantity = JNum(27)
  /\ \E o \in orders : o.id = resp.orderId /\ o.quantity = 2
  /\ \E o \in orders : o.id # resp.orderId /\ o.quantity \in {1, 99}

\* C11: a checkout answered 200 has billed the product's price times the
\* clamped quantity, in whole cents (1999 cents times 3 is 5997): the amount
\* is strictly positive, and the new order row stores the very amount the
\* gateway was given for the row's invoice.
C11_AmountIsPriceTimesQuantity ==
  [][ (CheckoutRuns /\ resp'.status = 200) =>
        \E row \in orders' \ orders : \E inv \in invoices' \ invoices :
          \E p \in products :
            /\ p.id = row.productId
            /\ ~p.price.null
            /\ IsClampOf(row.quantity, inflight.req.quantity)
            /\ row.amount = p.price.cents * row.quantity
            /\ row.amount > 0
            /\ row.btcpayInvoiceId = inv.id
            /\ inv.orderId = row.id
            /\ inv.amount = row.amount
            /\ inv.currency = row.currency ]_vars

\* C11 witness: three Logo Tees at 19.99 have been ordered for 59.97.
C11_Witness ==
  /\ CheckoutDone
  /\ resp.status = 200
  /\ inflight.req.quantity = JNum(30)
  /\ \E o \in orders : \E i \in invoices :
       /\ o.id = resp.orderId
       /\ o.productId = "p1"
       /\ o.quantity = 3
       /\ o.amount = 5997
       /\ i.id = o.btcpayInvoiceId
       /\ i.amount = 5997

\* The step in which an admin handler runs, and the state after it.
AdminRuns == phase = "pending" /\ phase' = "done" /\ inflight.handler = "admin"

AdminDone == phase = "done" /\ inflight.handler = "admin"

\* The request carries a session cookie the gate accepts at the time now.
CookieAccepted(e, now, r) == verifySessionCookie(e, now, r.cookie) = "true"

\* The request carries Basic credentials with the configured password.
BasicValid(e, r) ==
  /\ r.authorization.scheme = "Basic"
  /\ r.authorization.colon
  /\ r.authorization.pass = e.ADMIN_PASSWORD

\* The handler has gone past the gate: it returned a Response other than
\* 401 or did something after asking the gate.
PastGate(r) == (r.status # 0 /\ r.status # 401) \/ Len(r.calls) > 1

\* C12: with ADMIN_PASSWORD unset or blank every admin request passes the
\* gate; with it set a request passes the gate only with a session cookie
\* the gate accepts or with Basic credentials that carry the password, and
\* a request with neither is answered 401 by either admin endpoint before
\* any database call, with no row changed.
C12_AdminGate ==
  [][ AdminRuns =>
        LET open  == Trim(adminEnv.ADMIN_PASSWORD) = ""
            known == CookieAccepted(adminEnv, clock, inflight.req)
                       \/ BasicValid(adminEnv, inflight.req)
        IN  /\ open => PastGate(resp') /\ ~resp'.thrown
            /\ (~open /\ PastGate(resp')) => known
            /\ (~open /\ ~known) =>
                 /\ resp'.status = 401
                 /\ resp'.calls = <<"isAdminAuthenticated">>
                 /\ products' = products
                 /\ inventory' = inventory ]_vars

\* The cookie is 'timestamp.signature' with the signature sign() gives the
\* timestamp and a timestamp that is a number at most 24 hours before now.
SignedInWindow(e, now, cookie) ==
  /\ cookie.present /\ cookie.hasSig /\ ~cookie.extra
  /\ cookie.signature = sign(e, cookie.timestamp)
  /\ cookie.timestamp.num
  /\ 0 <= now - cookie.timestamp.n
  /\ now - cookie.timestamp.n <= SESSION_MAX_AGE_MS

\* C13: under a configured ADMIN_SECRET a session cookie 'timestamp.signature'
\* opens the gate exactly when its signature is HMAC-SHA256(ADMIN_SECRET,
\* timestamp) and 0 <= now - timestamp <= 24 hours: a minted cookie is
\* accepted until 24 hours after it was minted and at no later time, and a
\* cookie with a future timestamp, another timestamp or another signature
\* is refused.
C13_SessionCookieWindow ==
  [][ ( /\ AdminRuns
        /\ Trim(adminEnv.ADMIN_PASSWORD) # ""
        /\ ~SecretMissing(adminEnv)
        /\ inflight.req.authorization = NoAuthorization
        /\ inflight.req.cookie.present
        /\ ~inflight.req.cookie.extra )
      => ( PastGate(resp')
             <=> SignedInWindow(adminEnv, clock, inflight.req.cookie) ) ]_vars

\* C14: with ADMIN_PASSWORD set, isAdminAuthenticated answers plain true to
\* a request whose session cookie the gate accepts; without such a cookie it
\* answers { setCookie: true } exactly when the Authorization header holds
\* Basic credentials with the configured password, whatever the user name,
\* and false to every other request, which the endpoint answers with 401.
C14_BasicSignalsCookie ==
  [][ (AdminRuns /\ Trim(adminEnv.ADMIN_PASSWORD) # "") =>
        LET answer == isAdminAuthenticated(adminEnv, clock, inflight.req)
            cookie == CookieAccepted(adminEnv, clock, inflight.req)
            basic  == BasicValid(adminEnv, inflight.req)
        IN  /\ cookie => answer = "true"
            /\ ~cookie => (answer = "setCookie" <=> basic)
            /\ (~cookie /\ ~basic) => answer = "false"
            /\ answer = "false" <=> resp'.status = 401
            /\ answer \in {"true", "setCookie"} => PastGate(resp') ]_vars

\* The step in which the admin PATCH handler runs.
PatchRuns == AdminRuns /\ inflight.req.endpoint = "PATCH"

\* The size-inventory rows of product id under the label size.
SizeRowsOf(rows, id, size) == {r \in rows : r.productId = id /\ r.size = size}

\* x is the floor of the numeric quantity q, and 0 when that is negative.
IsFloorAtLeast0(x, q) ==
  LET v == IF q.t = "number" THEN q.n
           ELSE IF q.t = "string" THEN NumericStrings[q.s] ELSE 0
  IN  /\ q.t = "number" \/ q.t = "null"
         \/ (q.t = "string" /\ q.s \in DOMAIN NumericStrings)
      /\ IF v < 0 THEN x = 0 ELSE x * 10 <= v /\ v < (x + 1) * 10

\* The entries of the request's sizeInventory.
Entries == inflight.req.body.sizeInventory.items

\* C15: no state holds two size-inventory rows for one (productId, size),
\* and after a PATCH answered 200 every entry of its sizeInventory has
\* exactly one row: the row that was there before, its quantity overwritten,
\* or one new row when there was none; the quantity is that of the last
\* entry naming the size, so a size named twice in one payload has one row.
C15_OneRowPerSize ==
  [][ PatchRuns =>
        /\ \A r \in inventory' : SizeRowsOf(inventory', r.productId, r.size) = {r}
        /\ (resp'.status = 200 /\ SizeInventoryValid(inflight.req.body.sizeInventory)) =>
             \A i \in DOMAIN Entries :
               LET size   == Trim(Entries[i].size.s)
                   before == SizeRowsOf(inventory, inflight.req.id, size)
                   after  == SizeRowsOf(inventory', inflight.req.id, size)
                   last   == CHOOSE j \in DOMAIN Entries :
                               /\ Trim(Entries[j].size.s) = size
                               /\ \A k \in DOMAIN Entries :
                                    Trim(Entries[k].size.s) = size => k <= j
               IN  /\ Cardinality(after) = 1
                   /\ \A r \in after : IsFloorAtLeast0(r.quantity, Entries[last].quantity)
                   /\ \A r \in after : \A o \in before : r.id = o.id
                   /\ before = {} => \A r \in after : \A o \in inventory : r.id # o.id ]_vars

\* C15 witness: size M of a product was given a row by one PATCH, and a
\* second PATCH with M:0 has been answered 200 and left that one row, at 0.
C15_Witness ==
  /\ AdminDone
  /\ resp.status = 200
  /\ inflight.req.body.sizeInventory = SizeArray(<<Item(JStr("M"), JNum(0))>>)
  /\ \E r \in inventory :
       /\ SizeRowsOf(inventory, inflight.req.id, "M") = {r}
       /\ r.quantity = 0
       /\ r.createdAt < r.updatedAt

\* The quantity q of an entry is no number: missing digits, not null.
NonNumeric(q) == q.t = "string" /\ q.s \notin DOMAIN NumericStrings

\* C16: every stored size-inventory quantity is a non-negative integer, and
\* every row a PATCH has inserted or changed holds the floor of the quantity
\* an entry of the payload gives its size, or 0 when that is negative: for a
\* negative, a fractional and a numeric-string quantity alike.  (No row is
\* written for an entry whose quantity is no number.)
C16_SizeQuantityFloorClamped ==
  [][ PatchRuns =>
        /\ \A r \in inventory' : r.quantity \in Nat
        /\ \A r \in inventory' \ inventory :
             /\ r.productId = inflight.req.id
             /\ \E i \in DOMAIN Entries :
                  /\ Trim(Entries[i].size.s) = r.size
                  /\ IsFloorAtLeast0(r.quantity, Entries[i].quantity)
        /\ \A i \in DOMAIN Entries :
             (SizeInventoryValid(inflight.req.body.sizeInventory)
                /\ NonNumeric(Entries[i].quantity))
             => /\ resp'.status # 200
                /\ SizeRowsOf(inventory', inflight.req.id, Trim(Entries[i].size.s))
                     = SizeRowsOf(inventory, inflight.req.id, Trim(Entries[i].size.s)) ]_vars

\* C16 witness: a PATCH with M: -3.5 has been answered 200 for a product
\* without an M row, and the new row holds 0.
C16_Witness ==
  /\ AdminDone
  /\ resp.status = 200
  /\ inflight.req.body.sizeInventory = SizeArray(<<Item(JStr("M"), JNum(-35))>>)
  /\ \E r \in inventory :
       /\ r.productId = inflight.req.id
       /\ r.size = "M"
       /\ r.quantity = 0
       /\ r.createdAt = r.updatedAt
       /\ r.createdAt = clock - 1

\* The fields of a PATCH body the handler knows, which are also the names
\* of the products columns they are written to.
RecognizedFields ==
  {"name", "slug", "price", "regularPrice", "salePrice", "onSale", "stockStatus",
   "stockQuantity"}

\* The size label is named by an entry of the request's sizeInventory.
NamedSize(size) == \E i \in DOMAIN Entries : Trim(Entries[i].size.s) = size

\* C17: a PATCH answered 200 has changed, in the products table, nothing but
\* recognized columns present in the body, and updatedAt, of the product
\* addressed; and in the size inventory nothing but rows of that product
\* whose size the payload names.  Body fields the handler does not know
\* change nothing; every other product, column and size row is as before.
C17_PatchFrame ==
  [][ (PatchRuns /\ resp'.status = 200) =>
        /\ {p.id : p \in products'} = {p.id : p \in products}
        /\ \A p \in products : \A q \in products' :
             p.id = q.id =>
               \A c \in DOMAIN p :
                 q[c] # p[c] =>
                   /\ p.id = inflight.req.id
                   /\ c = "updatedAt"
                        \/ (c \in RecognizedFields
                              /\ inflight.req.body[c].t # "undefined")
        /\ \A r \in inventory :
             r \notin inventory' => (r.productId = inflight.req.id /\ NamedSize(r.size))
        /\ \A r \in inventory' :
             r \notin inventory => (r.productId = inflight.req.id /\ NamedSize(r.size))
        /\ \A r \in inventory : \E n \in inventory' : n.id = r.id ]_vars

\* C17 witness: a PATCH of the stock status with a field the handler does
\* not know has been answered 200 after an earlier PATCH of sizes; the
\* product addressed is out of stock and the others are as they started.
C17_Witness ==
  /\ AdminDone
  /\ resp.status = 200
  /\ inflight.req.body.description = JStr("New")
  /\ inflight.req.body.stockStatus = JStr("OUT_OF_STOCK")
  /\ Cardinality(inventory) > Cardinality(SeedInventory)
  /\ \E p \in products :
       /\ p.id = inflight.req.id
       /\ p.stockStatus = "OUT_OF_STOCK"
       /\ p.updatedAt = clock - 1
       /\ \E o \in Catalog : o.id = p.id /\ o.name = p.name /\ o.price = p.price
  /\ \A p \in products : p.id # inflight.req.id => p \in Catalog

\* C18: a PATCH answered 401, 400 or 404 has changed no product row and no
\* size-inventory row.
C18_RejectedPatchChangesNothing ==
  [][ (PatchRuns /\ resp'.status \in {401, 400, 404}) =>
        /\ products' = products
        /\ inventory' = inventory ]_vars

\* C18 witness: a PATCH naming a product field and a size for a product id
\* that is not there has been answered 404.
C18_Witness ==
  /\ AdminDone
  /\ resp.status = 404
  /\ inflight.req.endpoint = "PATCH"
  /\ inflight.req.body.name # Undef
  /\ SizeInventoryValid(inflight.req.body.sizeInventory)
  /\ \A p \in products : p.id # inflight.req.id

\* The label is a string among the options of a "Size" attribute of product
\* id whose options are a JSON array.
IsSizeOption(id, label) ==
  \E a \in productAttributes :
    /\ a.productId = id /\ a.name = "Size" /\ a.options.fmt = "array"
    /\ \E i \in DOMAIN a.options.items : a.options.items[i] = JStr(label)

\* C19: the size listing answered 200 holds one entry for every label that
\* has an inventory row of the product or is a string option of one of its
\* "Size" attributes, and no other entry; no label twice; the quantity of the
\* row where there is a row, and 0 where the label is an option only.
C19_SizesMergeInventoryAndOptions ==
  [][ (AdminRuns /\ inflight.req.endpoint = "GET" /\ resp'.status = 200) =>
        LET id    == inflight.req.id
            sizes == resp'.sizes
        IN  /\ \A i, j \in DOMAIN sizes : sizes[i].size = sizes[j].size => i = j
            /\ \A r \in inventory :
                 r.productId = id =>
                   \E i \in DOMAIN sizes :
                     sizes[i].size = r.size /\ sizes[i].quantity = r.quantity
            /\ \A l \in {Collation[k] : k \in DOMAIN Collation} :
                 (IsSizeOption(id, l) /\ SizeRowsOf(inventory, id, l) = {}) =>
                   \E i \in DOMAIN sizes : sizes[i].size = l /\ sizes[i].quantity = 0
            /\ \A i \in DOMAIN sizes :
                 \/ \E r \in SizeRowsOf(inventory, id, sizes[i].size) :
                      sizes[i].quantity = r.quantity
                 \/ (IsSizeOption(id, sizes[i].size) /\ sizes[i].quantity = 0)
            /\ inventory' = inventory /\ products' = products ]_vars

\* C19 witness: the listing of a product with the options S, M and XL and
\* one inventory row, for M with a quantity above 0, has been answered with
\* three entries: M with its quantity, S and XL with 0.
C19_Witness ==
  /\ AdminDone
  /\ inflight.req.endpoint = "GET"
  /\ resp.status = 200
  /\ Len(resp.sizes) = 3
  /\ \E i, j, k \in DOMAIN resp.sizes :
       /\ resp.sizes[i].size = "M" /\ resp.sizes[i].quantity > 0
       /\ resp.sizes[j] = [size |-> "S", quantity |-> 0]
       /\ resp.sizes[k] = [size |-> "XL", quantity |-> 0]

\* The order the size comparator is to give: waist sizes by their number,
\* then letter sizes by rank, then labels of neither kind, then "One Size".
WaistSizes == ("28\"" :> 28) @@ ("30\"" :> 30)

LetterRanks ==
  ("XXS" :> 0) @@ ("XS" :> 1) @@ ("S" :> 2) @@ ("M" :> 3) @@ ("L" :> 4)
  @@ ("XL" :> 5) @@ ("XXL" :> 6) @@ ("2XL" :> 6) @@ ("3XL" :> 7) @@ ("4XL" :> 8)

SizeKey(label) ==
  IF label = "One Size" THEN <<4, 0>>
  ELSE IF label \in DOMAIN WaistSizes THEN <<1, WaistSizes[label]>>
  ELSE IF label \in DOMAIN LetterRanks THEN <<2, LetterRanks[label]>>
  ELSE <<3, 0>>

KeyAtMost(k, l) == k[1] < l[1] \/ (k[1] = l[1] /\ k[2] <= l[2])

\* C20: the sorted list holds the entries of the list given, waist sizes
\* first in ascending order of their number, then letter sizes in the order
\* XXS < XS < S < M < L < XL < XXL = 2XL < 3XL < 4XL, then labels of neither
\* kind, and "One Size" last.
C20_SizeOrder ==
  (phase = "done" /\ inflight.handler = "sortSizesByOrder") =>
    /\ Len(resp.sizes) = Len(inflight.req)
    /\ \A e \in {inflight.req[i] : i \in DOMAIN inflight.req} :
         \E i \in DOMAIN resp.sizes : resp.sizes[i] = e
    /\ \A i, j \in DOMAIN resp.sizes :
         i < j => KeyAtMost(SizeKey(resp.sizes[i].size), SizeKey(resp.sizes[j].size))

\* C25 (as claimed): when a database call or an upstream call of a request
\* fails, the handler returns an HTTP error response; no exception leaves the
\* handler.
C25_FailuresAnswered ==
  [][ ((WebhookRuns \/ CheckoutRuns) /\ resp'.failed # "") =>
        /\ ~resp'.thrown
        /\ resp'.status >= 400 ]_vars

\* C26: order rows are added only by the checkout handler; afterwards only
\* the webhook handler changes a row, and only its status: productId,
\* productName, quantity, size, amount, currency and the invoice id stay as
\* they were created, and no row is ever removed.
C26_OrderFrame ==
  [][ /\ \A o \in orders : \E n \in orders' : [n EXCEPT !.status = o.status] = o
      /\ (\E n \in orders' : \A o \in orders : o.id # n.id) => CheckoutRuns
      /\ (\E o \in orders : o \notin orders') => WebhookRuns
      /\ Cardinality(orders') >= Cardinality(orders) ]_vars

\* C26 witness: a webhook has moved an order to settled, and the row is
\* otherwise what the checkout stored: one unit of the product, its name,
\* in USD.
C26_Witness ==
  /\ WebhookDone
  /\ resp.status = 200
  /\ \E o \in OrdersOf(orders, inflight.req.rawBody.invoiceId) :
       /\ o.status = "settled"
       /\ o.quantity = 1
       /\ o.currency = "USD"
       /\ \E p \in products : p.id = o.productId /\ p.name = o.productName

\* C28: no webhook delivery sets an order's status to pending: a row that is
\* pending after a step either did not exist before it or was pending before
\* it, and a row that is pending after a webhook was pending before it.
C28_NeverBackToPending ==
  [][ \A n \in orders' :
        n.status = "pending" =>
          /\ \A o \in orders : o.id = n.id => o.status = "pending"
          /\ WebhookRuns => \E o \in orders : o.id = n.id /\ o.status = "pending" ]_vars

\* C28 witness: a creation event has been delivered for the invoice of an
\* order that an earlier event had made processing, answered 200, and the
\* order is processing still.
C28_Witness ==
  /\ WebhookDone
  /\ ValidlySigned(inflight.req)
  /\ inflight.req.rawBody.type = "InvoiceCreated"
  /\ resp.status = 200
  /\ \E o \in OrdersOf(orders, inflight.req.rawBody.invoiceId) : o.status = "processing"

\* A catalog read has returned (not thrown) and its answer is at hand.
ReadDone(fn) ==
  /\ phase = "done"
  /\ inflight.handler = "catalog"
  /\ inflight.req.fn = fn
  /\ resp.status = 200

\* The key the spec orders products by: the rank of the name's product type,
\* for a jacket the rank of its colours (0 for other types), and the place
\* of the name in the alphabet.
ClaimedKey(name) ==
  CASE name = "Beanie"                   -> <<6, 0, 1>>
    [] name = "Logo Hoodie"              -> <<2, 0, 2>>
    [] name = "Logo Tee"                 -> <<3, 0, 3>>
    [] name = "Quake Tee"                -> <<4, 0, 4>>
    [] name = "Selvedge Jeans"           -> <<5, 0, 5>>
    [] name = "Shell Jacket"             -> <<1, 4, 6>>
    [] name = "Shell Jacket Black"       -> <<1, 3, 7>>
    [] name = "Shell Jacket Black/White" -> <<1, 1, 8>>
    [] name = "Shell Jacket Blue"        -> <<1, 2, 9>>
    [] name = "Sticker"                  -> <<99, 0, 10>>
    [] name = "Therma Jacket"            -> <<1, 4, 11>>
    [] name = "Therma Mask"              -> <<7, 0, 12>>

\* Key a is not greater than key b, level by level.
NotGreater(a, b) ==
  \/ a[1] < b[1]
  \/ a[1] = b[1] /\ a[2] < b[2]
  \/ a[1] = b[1] /\ a[2] = b[2] /\ a[3] <= b[3]

\* C21: the list returned by getAllProducts is ordered by product type
\* (jacket, hoodie, logo tee, other tee, jeans or denim, beanie, mask or
\* therma, anything else), jackets among themselves by colour (black and
\* white, blue, black only, other), and products equal on both by name in
\* alphabetical order: of two neighbours the earlier is not greater than the
\* later under this key.
C21_ProductOrder ==
  ReadDone("getAllProducts") =>
    \A i \in DOMAIN resp.list :
      i < Len(resp.list) =>
        NotGreater(ClaimedKey(resp.list[i].name), ClaimedKey(resp.list[i + 1].name))

\* C21 witness: three jackets have been returned, the black and white one
\* before the blue one before the black one.
C21_Witness ==
  /\ ReadDone("getAllProducts")
  /\ Len(resp.list) = 3
  /\ resp.list[1].name = "Shell Jacket Black/White"
  /\ resp.list[2].name = "Shell Jacket Blue"
  /\ resp.list[3].name = "Shell Jacket Black"

\* The ids of the products linked to a category of slug s.
LinkedTo(s) ==
  {l.productId : l \in {x \in productCategories :
                          \E c \in categories : c.slug = s /\ c.id = x.categoryId}}

\* C22 (as claimed): getAllProducts(categorySlug) returns the empty list, and
\* no error, when no category has that slug or no product is linked to the
\* category; otherwise what it returns is exactly the products linked to the
\* category.
C22_CategoryFilter ==
  ( /\ phase = "done"
    /\ inflight.handler = "catalog"
    /\ inflight.req.fn = "getAllProducts"
    /\ inflight.req.arg.t = "string" ) =>
      /\ LinkedTo(inflight.req.arg.s) = {} =>
           /\ resp.status = 200
           /\ resp.list = <<>>
      /\ resp.status = 200 =>
           {resp.list[i].id : i \in DOMAIN resp.list} = LinkedTo(inflight.req.arg.s)

\* No entry of the list stands in it twice.
NoRepeat(list) == \A i, j \in DOMAIN list : i # j => list[i] # list[j]

Range(list) == {list[i] : i \in DOMAIN list}

\* C23: a catalog read that returns gives every product at most once, and
\* within a product every image, category, attribute and size row linked to
\* it exactly once, whatever the fan-out of the joined rows and the order
\* the database returns them in.
C23_GroupedOnce ==
  (ReadDone("getAllProducts") \/ ReadDone("getProductBySlug")) =>
    /\ NoRepeat([i \in DOMAIN resp.list |-> resp.list[i].id])
    /\ \A i \in DOMAIN resp.list :
         LET f == resp.list[i]
         IN  /\ NoRepeat(f.galleryImages)
             /\ Range(f.galleryImages) =
                  {m.imageUrl : m \in {x \in productImages : x.productId = f.id}}
             /\ NoRepeat(f.productCategories)
             /\ Range(f.productCategories) =
                  {l.categoryId : l \in {x \in productCategories : x.productId = f.id}}
             /\ NoRepeat(f.attributes)
             /\ Range(f.attributes) =
                  {a.id : a \in {x \in productAttributes : x.productId = f.id}}
             /\ NoRepeat(f.sizes)
             /\ Range(f.sizes) =
                  {[size |-> r.size, quantity |-> r.quantity] :
                     r \in {x \in inventory : x.productId = f.id}}

\* C23 witness: the whole catalog has been returned, two products, one of
\* them from rows that fan out over two images, two categories, three
\* attributes and two sizes, the other in one of those categories.
C23_Witness ==
  /\ ReadDone("getAllProducts")
  /\ inflight.req.arg.t = "undefined"
  /\ Len(resp.list) = 2
  /\ \E i \in DOMAIN resp.list :
       /\ Len(resp.list[i].galleryImages) = 2
       /\ Len(resp.list[i].productCategories) = 2
       /\ Len(resp.list[i].attributes) = 3
       /\ Len(resp.list[i].sizes) = 2
  /\ \E i \in DOMAIN resp.list :
       /\ resp.list[i].id = "p4"
       /\ resp.list[i].productCategories = <<"c1">>

\* C24 (as claimed): the image of a returned product is an image of the
\* product with isPrimary true when it has one; else the product's image
\* of least sortOrder; and it is absent only when the product has no image.
C24_PrimaryImage ==
  (ReadDone("getAllProducts") \/ ReadDone("getProductBySlug")) =>
    \A i \in DOMAIN resp.list :
      LET f    == resp.list[i]
          mine == {x \in productImages : x.productId = f.id}
      IN  /\ (\E m \in mine : m.isPrimary) =>
               \E m \in mine : m.isPrimary /\ f.image = m.imageUrl
          /\ (mine # {} /\ \A m \in mine : ~m.isPrimary) =>
               \E m \in mine : /\ f.image = m.imageUrl
                               /\ \A x \in mine : m.sortOrder <= x.sortOrder
          /\ f.image = SqlNull <=> mine = {}

\* The size entries of product id as every order of its inventory rows has
\* them leave the catalog read layer's sortSizesByOrder.
CatalogViews(id) ==
  LET mine == {[size |-> r.size, quantity |-> r.quantity] :
                 r \in {x \in inventory : x.productId = id}}
  IN  {sortSizesByOrder(o) : o \in Orderings(mine)}

\* C29 (as claimed): the public size listing answers 404 for a slug no
\* product has; for a product it answers with the product's inventory
\* entries as sortSizes orders them; sortSizes and sortSizesByOrder give
\* every list of size entries the same order; and the listing shows the
\* sizes in the order the catalog read shows them in.
C29_PublicSizesAsCatalog ==
  ( /\ phase = "done"
    /\ inflight.handler = "catalog"
    /\ inflight.req.fn = "GET sizes"
    /\ inflight.req.arg.t = "string"
    /\ resp.failed = "" ) =>
      LET named == {p \in products : p.slug = inflight.req.arg.s}
      IN  /\ named = {} => resp.status = 404
          /\ named # {} =>
               /\ resp.status = 200
               /\ Range(resp.sizes) =
                    {[size |-> r.size, quantity |-> r.quantity] :
                       r \in {x \in inventory : \E p \in named : x.productId = p.id}}
               /\ resp.sizes = sortSizes(resp.sizes)
               /\ \A l \in SizeLists : sortSizes(l) = sortSizesByOrder(l)
               /\ \A p \in named : CatalogViews(p.id) = {resp.sizes}

\* The quantities handler p of the race was given for size.
Given(p, size) ==
  LET items == inflight.req[p].items
  IN  {items[i].quantity.v \div 10 : i \in {j \in DOMAIN items : items[j].size = size}}

\* The sizes handler p of the race was given.
NamedBy(p) ==
  LET items == inflight.req[p].items IN {items[i].size : i \in DOMAIN items}

\* Both handlers of the race have answered.
RaceOver ==
  /\ inflight.handler = "race"
  /\ inflight.req.a.at = "done"
  /\ inflight.req.b.at = "done"

\* C27: while two PATCH requests for one product interleave their selects
\* and writes, no two rows of product_size_inventory ever share
\* (productId, size); and once both have answered, every size both named
\* has a row whose quantity is one that one of the two gave for it.
C27_RacingPatches ==
  inflight.handler = "race" =>
    /\ \A r1, r2 \in inventory :
         (r1.productId = r2.productId /\ r1.size = r2.size) => r1 = r2
    /\ RaceOver =>
         \A size \in NamedBy("a") \cap NamedBy("b") :
           /\ SizeRowsOf(inventory, inflight.req.id, size) # {}
           /\ \A r \in SizeRowsOf(inventory, inflight.req.id, size) :
                r.quantity \in Given("a", size) \cup Given("b", size)

\* Both handlers selected size M before either wrote it; one insert was
\* refused and answered 500, the other answered 200.
C27_Witness ==
  /\ RaceOver
  /\ "M" \in NamedBy("a") \cap NamedBy("b")
  /\ inflight.req.a.status = 500
  /\ inflight.req.b.status = 200
  /\ Given("a", "M") # Given("b", "M")
  /\ \E r \in SizeRowsOf(inventory, "p2", "M") : r.quantity \in Given("b", "M")

\* A payment button is activated in this step.
Activated == cartButton.mounted /\ cartButton'.clicks = cartButton.clicks + 1

\* A fetch settles in this step and its handler ends in the catch.
FetchFails ==
  /\ cartButton.mounted
  /\ Len(cartButton'.fetches) < Len(cartButton.fetches)
  /\ cartButton'.location = cartButton.location

\* What holds of the component whatever becomes of a failed fetch: an
\* activation while a size is needed sends nothing and leaves the page
\* where it is; while a fetch is out isLoading is set, the buttons are
\* disabled and no second fetch is out; a failed fetch clears isLoading
\* and sets the error.
CartButtonGuards ==
  /\ (Activated /\ needsSize(cartButton)) =>
       /\ cartButton'.fetches = cartButton.fetches
       /\ cartButton'.location = cartButton.location
  /\ (cartButton'.mounted /\ cartButton'.fetches # <<>>) =>
       /\ cartButton'.isLoading \in {"card", "bitcoin"}
       /\ Disabled(cartButton')
       /\ Len(cartButton'.fetches) = 1
  /\ FetchFails =>
       /\ cartButton'.isLoading = ABSENT
       /\ cartButton'.error # ABSENT

\* C30 (as claimed): an activation while the product has sizes and none is
\* selected sends no checkout request and does not redirect; while a
\* checkout request is out both buttons are disabled and no second request
\* is out; a failed request sets isLoading to null and sets the error, and
\* after it the buttons are enabled again.
C30_CartButton ==
  [][CartButtonGuards /\ (FetchFails => ~Disabled(cartButton'))]_vars

\* C30 (amended): an activation while the product has sizes and none is
\* selected sends no checkout request and does not redirect; while a
\* checkout request is out isLoading is 'card' or 'bitcoin', both buttons
\* are disabled and no second request is out; a failed request sets
\* isLoading to null and sets the error, after which the buttons are
\* disabled exactly when the product has sizes and none is selected.
C30_CartButtonUnlessSizeNeeded ==
  [][CartButtonGuards
     /\ (FetchFails => (Disabled(cartButton') <=> needsSize(cartButton')))]_vars

\* A request went out for size M and failed: the error is shown, isLoading
\* is null and the buttons are enabled.
C30_Witness ==
  /\ cartButton.mounted
  /\ cartButton.location = "/product"
  /\ cartButton.selectedSize = "M"
  /\ cartButton.error = "Request failed (500)"
  /\ cartButton.isLoading = ABSENT
  /\ cartButton.fetches = <<>>
  /\ cartButton.clicks = 2
  /\ ~Disabled(cartButton)

============================================================================
